---- MODULE Spec2Model ----
(***************************************************************************)
(* Hierarchical data-access and aggregation layer of the MZO reporting     *)
(* dashboard: the mandatory scope restriction, the compound client-side    *)
(* filters, the summary / share aggregations and the collection roll-ups.  *)
(*                                                                         *)
(* JavaScript values are encoded as follows.                               *)
(*   - a string is the sequence of its characters, each a one-character    *)
(*     TLA+ string, so that it can be lowercased, searched and cut by      *)
(*     position as the code does;                                          *)
(*   - the value undefined (a field the provider left unset, a filter      *)
(*     that was never chosen) is Undefined, a value no string equals;      *)
(*   - a number is an integer;                                             *)
(*   - an optional array is a record [given, items].                       *)
(***************************************************************************)
EXTENDS Integers, Sequences, FiniteSets, TLC

VARIABLES
  phase,      \* "input" before the operation under study has run, "done" after
  user,       \* the User descriptor of the session
  row,        \* scope check: the record examined
  inScope,    \* scope check: the value applyHierarchyRestriction returned
  dataset,    \* data service: which dataset the provider supplied
  allData,    \* data service: the records the provider returned
  filters,    \* data service: the HierarchyFilter chosen in the screen
  result,     \* data service: what the fetch function gave its caller
  screenData, \* report screen: the records on display (the `data` state)
  groupKey,   \* report screen: the field a table groups by
  summary,    \* report screen: the table computed from data
  officeMap,  \* report screen: office code -> office name (the `officeMap` state)
  total,      \* report screen: the total a table's shares are taken of
  aggregates, \* collection screen: the four time rollups
  storage,    \* cache: what localStorage holds under each key
  sheet,      \* cache: the rows of the sheet of the data set in focus
  now,        \* cache: the clock (Date.now())
  focus,      \* cache: the data set whose functions are called
  call,       \* cache: the last call, what it returned and what it did
  sweep,      \* background sync: the run of performFullBackgroundSync
  tasks,      \* background sync: the runs of syncSheetBackground it started
  sheets,     \* background sync: the rows of the sheet of each data set
  screen,     \* screen: the state of the component on display
  loads       \* screen: the loads started and not yet completed

scopeVars == <<row, inScope>>
fetchVars == <<dataset, allData, filters, result>>
reportVars == <<screenData, groupKey, summary, officeMap, total, aggregates>>
cacheVars == <<storage, sheet, now, focus, call>>
sweepVars == <<sweep, tasks, sheets>>
screenVars == <<screen, loads>>
vars ==
  <<phase, user, row, inScope, dataset, allData, filters, result,
    screenData, groupKey, summary, officeMap, total, aggregates,
    storage, sheet, now, focus, call, sweep, tasks, sheets, screen, loads>>

(***************************************************************************)
(* JavaScript values                                                       *)
(***************************************************************************)
Undefined == <<"<undefined>">>

\* JavaScript truthiness of a string-or-undefined value: `row.x && ...`
Truthy(v) == v # Undefined /\ v # <<>>

\* String literals of the data.
Code6613001 == <<"6", "6", "1", "3", "0", "0", "1">>
Code6613002 == <<"6", "6", "1", "3", "0", "0", "2">>
Code6613000 == <<"6", "6", "1", "3", "0", "0", "0">>
Code6610000 == <<"6", "6", "1", "0", "0", "0", "0">>
Code6600000 == <<"6", "6", "0", "0", "0", "0", "0">>
Day0to3 == <<"0", "-", "3", " ", "D", "a", "y">>
Day4to7 == <<"4", "-", "7", " ", "D", "a", "y">>
Day8to15 == <<"8", "-", "1", "5", " ", "D", "a", "y">>
Day16plus == <<"1", "6", "+", " ", "D", "a", "y">>
Day8plus == <<"8", "+", " ", "D", "a", "y">>
RameshKumar == <<"R", "a", "m", "e", "s", "h", " ", "K", "u", "m", "a", "r">>
ShyamLal == <<"S", "h", "y", "a", "m", " ", "L", "a", "l">>
QueryRam == <<"r", "a", "m">>
QueryRamCaps == <<"R", "a", "m">>
Query7 == <<"7">>
QueryZz == <<"z", "z">>
ValA == <<"A">>
ValB == <<"B">>
Text7A == <<"7", "A">>
Text97 == <<"9", "7">>
Str2 == <<"2">>
Str12 == <<"1", "2">>
NA == <<"N", "/", "A">>
Constructor == <<"c", "o", "n", "s", "t", "r", "u", "c", "t", "o", "r">>

(***************************************************************************)
(* JavaScript string operations                                            *)
(***************************************************************************)
UpperCase ==
  <<"A", "B", "C", "D", "E", "F", "G", "H", "I", "J", "K", "L", "M",
    "N", "O", "P", "Q", "R", "S", "T", "U", "V", "W", "X", "Y", "Z">>
LowerCase ==
  <<"a", "b", "c", "d", "e", "f", "g", "h", "i", "j", "k", "l", "m",
    "n", "o", "p", "q", "r", "s", "t", "u", "v", "w", "x", "y", "z">>
Digits == <<"0", "1", "2", "3", "4", "5", "6", "7", "8", "9">>

\* The lower-case letter of each upper-case letter.
UpperToLower ==
  [c \in {UpperCase[i] : i \in DOMAIN UpperCase} |->
     LowerCase[CHOOSE i \in DOMAIN UpperCase : UpperCase[i] = c]]

ToLowerChar(c) == IF c \in DOMAIN UpperToLower THEN UpperToLower[c] ELSE c

\* String.prototype.toLowerCase
toLowerCase(str) == [i \in DOMAIN str |-> ToLowerChar(str[i])]

\* String.prototype.includes
StrIncludes(str, q) ==
  \E i \in 0..(Len(str) - Len(q)) : SubSeq(str, i + 1, i + Len(q)) = q

\* Array.prototype.includes (strict equality on each element)
ArrIncludes(arr, v) == \E i \in DOMAIN arr : arr[i] = v

\* String(n) for a non-negative integer
RECURSIVE String(_)
String(n) ==
  IF n < 10 THEN <<Digits[n + 1]>>
  ELSE String(n \div 10) \o <<Digits[(n % 10) + 1]>>

\* `x || ''`
OrEmpty(v) == IF Truthy(v) THEN v ELSE <<>>

\* An optional array of a filter specification.
NoArray == [given |-> FALSE, items |-> <<>>]
Array(items) == [given |-> TRUE, items |-> items]

(***************************************************************************)
(* types.ts                                                                *)
(***************************************************************************)
UserRole == {"ZONE", "REGION", "DIVISION", "CCC"}

\* The role column of the users sheet is cast, not validated: any other text
\* in it reaches the data service as the role.
SheetRoles == UserRole \cup {"ADMIN"}

HierarchyFields == {"zone_code", "region_code", "division_code", "ccc_code"}

\* The hierarchy-code field of a role's level.
RoleField(role) ==
  CASE role = "ZONE" -> "zone_code"
    [] role = "REGION" -> "region_code"
    [] role = "DIVISION" -> "division_code"
    [] role = "CCC" -> "ccc_code"

(***************************************************************************)
(* dataService.ts: the mandatory hierarchy restriction                     *)
(***************************************************************************)
\* A plausible slip: the DIVISION branch also verifies the ancestor region.
applyHierarchyRestrictionAncestors(r, u) ==
  IF u.role = "REGION"
    THEN ~(Truthy(r.region_code) /\ r.region_code # u.region_code)
  ELSE IF u.role = "DIVISION"
    THEN /\ ~(Truthy(r.division_code) /\ r.division_code # u.division_code)
         /\ ~(Truthy(r.region_code) /\ r.region_code # u.region_code)
  ELSE IF u.role = "CCC"
    THEN ~(Truthy(r.ccc_code) /\ r.ccc_code # u.ccc_code)
  ELSE IF u.role = "ZONE"
    THEN ~(Truthy(r.zone_code) /\ r.zone_code # u.zone_code)
  ELSE TRUE

\* A plausible slip: the CCC branch without the `row.ccc_code &&` guard.
applyHierarchyRestrictionNoGuard(r, u) ==
  IF u.role = "REGION"
    THEN ~(Truthy(r.region_code) /\ r.region_code # u.region_code)
  ELSE IF u.role = "DIVISION"
    THEN ~(Truthy(r.division_code) /\ r.division_code # u.division_code)
  ELSE IF u.role = "CCC"
    THEN ~(r.ccc_code # u.ccc_code)
  ELSE IF u.role = "ZONE"
    THEN ~(Truthy(r.zone_code) /\ r.zone_code # u.zone_code)
  ELSE TRUE

\* A plausible slip: the check skipped when the user, not the record, lacks
\* the code.
applyHierarchyRestrictionUserGuard(r, u) ==
  IF u.role = "REGION"
    THEN ~(Truthy(u.region_code) /\ Truthy(r.region_code)
             /\ r.region_code # u.region_code)
  ELSE IF u.role = "DIVISION"
    THEN ~(Truthy(u.division_code) /\ Truthy(r.division_code)
             /\ r.division_code # u.division_code)
  ELSE IF u.role = "CCC"
    THEN ~(Truthy(u.ccc_code) /\ Truthy(r.ccc_code) /\ r.ccc_code # u.ccc_code)
  ELSE IF u.role = "ZONE"
    THEN ~(Truthy(u.zone_code) /\ Truthy(r.zone_code)
             /\ r.zone_code # u.zone_code)
  ELSE TRUE

applyHierarchyRestriction(r, u) ==
  IF u.role = "REGION"
    THEN ~(Truthy(r.region_code) /\ r.region_code # u.region_code)
  ELSE IF u.role = "DIVISION"
    THEN ~(Truthy(r.division_code) /\ r.division_code # u.division_code)
  ELSE IF u.role = "CCC"
    THEN ~(Truthy(r.ccc_code) /\ r.ccc_code # u.ccc_code)
  ELSE IF u.role = "ZONE"
    THEN ~(Truthy(r.zone_code) /\ r.zone_code # u.zone_code)
  ELSE TRUE

(***************************************************************************)
(* dataService.ts: the client-side filters                                 *)
(***************************************************************************)
\* `dateRange?: { start: string; end: string }`: absent, or the two bounds
\* the filter panel has set so far (a bound not yet set is undefined).
NoRange == [given |-> FALSE, start |-> Undefined, end |-> Undefined]
DateRange(start, end) == [given |-> TRUE, start |-> start, end |-> end]

\* A filter specification in which nothing was chosen: `{}`.
EmptyFilters ==
  [zone |-> Undefined, region |-> Undefined, division |-> Undefined,
   ccc |-> Undefined,
   delayRange |-> NoArray, poleNonPole |-> NoArray, applicantType |-> NoArray,
   connClass |-> NoArray, isDuareSarkar |-> NoArray, isPortalAppl |-> NoArray,
   woIssued |-> NoArray, divnName |-> NoArray, suppOffloadWatts |-> NoArray,
   appliedPhase |-> NoArray, noOfPoles |-> NoArray,
   regionCodes |-> NoArray, divisionCodes |-> NoArray, cccCodes |-> NoArray,
   connStat |-> NoArray, baseClass |-> NoArray, category |-> NoArray,
   meterType |-> NoArray, connPhase |-> NoArray, govtStat |-> NoArray,
   connBy |-> NoArray,
   searchQuery |-> Undefined,
   dateRange |-> NoRange]

\* `if (filters.zone && row.zone_code !== filters.zone) return false;`
SingleSelectRejects(choice, v) == Truthy(choice) /\ v # choice

\* The four single-select hierarchy filters of the screens.
UIHierarchyRejects(r, f) ==
  \/ SingleSelectRejects(f.zone, r.zone_code)
  \/ SingleSelectRejects(f.region, r.region_code)
  \/ SingleSelectRejects(f.division, r.division_code)
  \/ SingleSelectRejects(f.ccc, r.ccc_code)

\* A plausible slip: the `length > 0` test left out, so that an empty
\* selection rejects every record.
MultiSelectRejectsNoLength(choice, v) ==
  choice.given /\ ~ArrIncludes(choice.items, v)

\* A plausible slip: the legacy single-value comparison, against the first
\* selected value only.
MultiSelectRejectsFirstOnly(choice, v) ==
  choice.given /\ Len(choice.items) > 0 /\ choice.items[1] # v

\* `if (filters.F && filters.F.length > 0 && !filters.F.includes(v)) return false;`
MultiSelectRejects(choice, v) ==
  choice.given /\ Len(choice.items) > 0 /\ ~ArrIncludes(choice.items, v)

\* `a.toLowerCase().includes(q) || b.toLowerCase().includes(q) || ...` over
\* the fields in order: "match", "nomatch", or "throw" when a field that is
\* reached is undefined (TypeError: toLowerCase of undefined).
RECURSIVE SearchFields(_, _)
SearchFields(values, q) ==
  IF values = <<>> THEN "nomatch"
  ELSE IF Head(values) = Undefined THEN "throw"
  ELSE IF StrIncludes(toLowerCase(Head(values)), q) THEN "match"
  ELSE SearchFields(Tail(values), q)

\* The callback of allData.filter in fetchNSCData: "keep", "drop" or "throw".
NSCRow(r, u, f) ==
  IF ~applyHierarchyRestriction(r, u) THEN "drop"
  ELSE IF UIHierarchyRejects(r, f) THEN "drop"
  ELSE IF \/ MultiSelectRejects(f.delayRange, r.DelayRange)
          \/ MultiSelectRejects(f.poleNonPole, r.PoleNonPole)
          \/ MultiSelectRejects(f.applicantType, r.APPLICANT_TYPE)
          \/ MultiSelectRejects(f.connClass, r.CONN_CLASS)
          \/ MultiSelectRejects(f.isDuareSarkar, r.IS_DUARE_SARKAR)
          \/ MultiSelectRejects(f.isPortalAppl, r.IS_PORTAL_APPL)
          \/ MultiSelectRejects(f.woIssued, OrEmpty(r.WO_ISSUED))
          \/ MultiSelectRejects(f.divnName, r.DIVN_NAME)
          \/ MultiSelectRejects(f.suppOffloadWatts, String(r.SUPP_OFFLOAD_WATTS))
          \/ MultiSelectRejects(f.appliedPhase, OrEmpty(r.APPLIED_PHASE))
          \/ MultiSelectRejects(f.noOfPoles, String(r.NO_OF_POLES))
    THEN "drop"
  ELSE IF Truthy(f.searchQuery)
    THEN LET q == toLowerCase(f.searchQuery)
             m == SearchFields(<<r.APPL_NO, r.NAME, r.PHONE_NO>>, q)
         IN  IF m = "throw" THEN "throw"
             ELSE IF m = "nomatch" THEN "drop" ELSE "keep"
  ELSE "keep"

\* The mandatory restriction written out in fetchConsumerData.
consumerHierarchyRestriction(r, u) ==
  /\ ~(u.role = "CCC" /\ r.ccc_code # u.ccc_code)
  /\ ~(u.role = "DIVISION" /\ Truthy(r.division_code)
         /\ r.division_code # u.division_code)
  /\ ~(u.role = "REGION" /\ Truthy(r.region_code)
         /\ r.region_code # u.region_code)

\* The search expression of fetchConsumerData; ccc_name alone is guarded.
ConsumerSearch(r, q) ==
  IF r.ccc_code = Undefined THEN "throw"
  ELSE IF StrIncludes(toLowerCase(r.ccc_code), q) THEN "match"
  ELSE IF Truthy(r.ccc_name) /\ StrIncludes(toLowerCase(r.ccc_name), q)
    THEN "match"
  ELSE SearchFields(<<r.CATEGORY, r.CONN_STAT>>, q)

\* The callback of allData.filter in fetchConsumerData.
ConsumerRow(r, u, f) ==
  IF ~consumerHierarchyRestriction(r, u) THEN "drop"
  ELSE IF \/ MultiSelectRejects(f.regionCodes, OrEmpty(r.region_code))
          \/ MultiSelectRejects(f.divisionCodes, OrEmpty(r.division_code))
          \/ MultiSelectRejects(f.cccCodes, r.ccc_code)
    THEN "drop"
  ELSE IF \/ MultiSelectRejects(f.connStat, r.CONN_STAT)
          \/ MultiSelectRejects(f.baseClass, r.BASE_CLASS)
          \/ MultiSelectRejects(f.category, r.CATEGORY)
          \/ MultiSelectRejects(f.meterType, r.TYPE_OF_METER)
          \/ MultiSelectRejects(f.connPhase, r.CONN_PHASE)
          \/ MultiSelectRejects(f.govtStat, r.GOVT_STAT)
          \/ MultiSelectRejects(f.connBy, r.CONN_BY)
    THEN "drop"
  ELSE IF Truthy(f.searchQuery)
    THEN LET m == ConsumerSearch(r, toLowerCase(f.searchQuery))
         IN  IF m = "throw" THEN "throw"
             ELSE IF m = "nomatch" THEN "drop" ELSE "keep"
  ELSE "keep"

\* The callback of allData.filter in fetchDocketData.
DocketRow(r, u, f) ==
  IF ~applyHierarchyRestriction(r, u) THEN "drop"
  ELSE IF UIHierarchyRejects(r, f) THEN "drop"
  ELSE IF Truthy(f.searchQuery)
    THEN LET q == toLowerCase(f.searchQuery)
             m == SearchFields(<<r.doc_no, r.PARTY_NAME, r.con_id>>, q)
         IN  IF m = "throw" THEN "throw"
             ELSE IF m = "nomatch" THEN "drop" ELSE "keep"
  ELSE "keep"

\* The code units of the characters of an ISO date, in ascending order.
CodeUnitOrder == <<"-", "0", "1", "2", "3", "4", "5", "6", "7", "8", "9">>

CodeUnitRank(c) ==
  IF \E i \in DOMAIN CodeUnitOrder : CodeUnitOrder[i] = c
    THEN CHOOSE i \in DOMAIN CodeUnitOrder : CodeUnitOrder[i] = c
    ELSE Len(CodeUnitOrder) + 1

\* `a < b` on two strings: by code unit, a proper prefix first.
RECURSIVE StringLess(_, _)
StringLess(a, b) ==
  IF b = <<>> THEN FALSE
  ELSE IF a = <<>> THEN TRUE
  ELSE IF CodeUnitRank(Head(a)) < CodeUnitRank(Head(b)) THEN TRUE
  ELSE IF CodeUnitRank(Head(a)) > CodeUnitRank(Head(b)) THEN FALSE
  ELSE StringLess(Tail(a), Tail(b))

\* `a < b` of JavaScript on strings and undefined: an undefined operand
\* converts to NaN and the comparison is false.
JsLess(a, b) == a # Undefined /\ b # Undefined /\ StringLess(a, b)

\* `if (filters.dateRange) { if (row.date < filters.dateRange.start ||
\* row.date > filters.dateRange.end) return false; }`
DateRangeRejects(range, date) ==
  range.given /\ (JsLess(date, range.start) \/ JsLess(range.end, date))

\* The callback of allData.filter in fetchFilteredData.
ReportRow(r, u, f) ==
  IF ~applyHierarchyRestriction(r, u) THEN "drop"
  ELSE IF UIHierarchyRejects(r, f) THEN "drop"
  ELSE IF DateRangeRejects(f.dateRange, r.date) THEN "drop"
  ELSE "keep"

\* The callback of allData.filter in fetchCollectionData.
CollectionRow(r, u, f) ==
  IF ~applyHierarchyRestriction(r, u) THEN "drop"
  ELSE IF UIHierarchyRejects(r, f) THEN "drop"
  ELSE "keep"

\* The outcome of the filter callback of a dataset's fetch function.
RowOutcome(kind, r, u, f) ==
  CASE kind = "nsc" -> NSCRow(r, u, f)
    [] kind = "consumers" -> ConsumerRow(r, u, f)
    [] kind = "dockets" -> DocketRow(r, u, f)
    [] kind = "reports" -> ReportRow(r, u, f)
    [] kind = "collection" -> CollectionRow(r, u, f)

\* A plausible slip: a record of the CCC chosen in the filter page is kept
\* whatever the scope of the user.
FilterDataChosenCCC(kind, data, u, f) ==
  [threw |-> FALSE,
   rows |-> SelectSeq(data, LAMBDA r :
              \/ RowOutcome(kind, r, u, f) = "keep"
              \/ (Truthy(f.ccc) /\ r.ccc_code = f.ccc))]

\* `allData.filter(callback)`: the records kept, in order; an exception of
\* the callback leaves the async function rejected, with no records.
FilterData(kind, data, u, f) ==
  IF \E i \in DOMAIN data : RowOutcome(kind, data[i], u, f) = "throw"
    THEN [threw |-> TRUE, rows |-> <<>>]
    ELSE [threw |-> FALSE,
          rows |-> SelectSeq(data, LAMBDA r : RowOutcome(kind, r, u, f) = "keep")]

fetchNSCData(u, f, data) == FilterData("nsc", data, u, f)
fetchConsumerData(u, f, data) == FilterData("consumers", data, u, f)
fetchDocketData(u, f, data) == FilterData("dockets", data, u, f)
fetchCollectionData(u, f, data) == FilterData("collection", data, u, f)

\* Two decimal digits: the month and the day of toISOString.
TwoDigits(n) == IF n < 10 THEN <<"0">> \o String(n) ELSE String(n)

\* The number of days generateMockData goes back.
MockDays == 30

\* `date.toISOString().split('T')[0]` of the day i days before today, today
\* being 15 March 2024.
MockDate(i) ==
  IF i < 15
    THEN <<"2", "0", "2", "4", "-", "0", "3", "-">> \o TwoDigits(15 - i)
    ELSE <<"2", "0", "2", "4", "-", "0", "2", "-">> \o TwoDigits(44 - i)

\* generateMockData(): one record a day, of one zone and one region; the
\* random figures of the records are left out.
MOCK_REPORT_DATA ==
  [k \in 1..MockDays |->
     [date |-> MockDate(k - 1), zone_code |-> Code6600000,
      region_code |-> Code6610000, division_code |-> Code6613000,
      ccc_code |-> Code6613001]]

\* `if (allData.length === 0) allData = MOCK_REPORT_DATA;` and the filter.
fetchFilteredData(u, f, data) ==
  FilterData("reports", IF Len(data) = 0 THEN MOCK_REPORT_DATA ELSE data, u, f)

NoResult == [threw |-> FALSE, rows |-> <<>>]

NumericFields == {"SUPP_OFFLOAD_WATTS", "NO_OF_POLES"}

\* officeMap before fetchOfficeMapping has answered: `{}`.
NoOffices == <<>>

\* No rollup computed.
NoAggregates == [dailyCount |-> <<>>, weeklyCount |-> <<>>,
                 monthlyCount |-> <<>>, fyCount |-> <<>>]

\* The report screen before any record is on display.
ReportIdle ==
  /\ screenData = <<>>
  /\ groupKey = "none"
  /\ summary = <<>>
  /\ officeMap = NoOffices
  /\ total = 0
  /\ aggregates = NoAggregates

(***************************************************************************)
(* PendingNSCReport.tsx: getSummaryData                                    *)
(***************************************************************************)
\* A JavaScript object used as a map is modelled by the sequence of its
\* entries in insertion order; ObjectEntries gives the order Object.entries
\* enumerates them in.

\* `String(item[key] || 'N/A')`: the sentinel for an undefined, empty or
\* zero value.
SummaryLabel(item, key) ==
  IF key \in NumericFields
    THEN IF item[key] = 0 THEN NA ELSE String(item[key])
    ELSE IF Truthy(item[key]) THEN item[key] ELSE NA

\* The index of the entry of a label in a map, 0 when it has none.
EntryIndex(map, label) ==
  IF \E i \in DOMAIN map : map[i].label = label
    THEN CHOOSE i \in DOMAIN map : map[i].label = label
    ELSE 0

\* The property names an object literal `{}` inherits from Object.prototype:
\* reading one of them from a map that has no entry of its own under that
\* name gives the inherited object, which is truthy.
InheritedProperties ==
  {Constructor,
   <<"_", "_", "p", "r", "o", "t", "o", "_", "_">>,
   <<"t", "o", "S", "t", "r", "i", "n", "g">>,
   <<"v", "a", "l", "u", "e", "O", "f">>,
   <<"h", "a", "s", "O", "w", "n", "P", "r", "o", "p", "e", "r", "t", "y">>,
   <<"i", "s", "P", "r", "o", "t", "o", "t", "y", "p", "e", "O", "f">>,
   <<"t", "o", "L", "o", "c", "a", "l", "e", "S", "t", "r", "i", "n", "g">>,
   <<"p", "r", "o", "p", "e", "r", "t", "y", "I", "s", "E", "n", "u", "m", "e",
     "r", "a", "b", "l", "e">>}

\* The body of data.forEach in getSummaryData.  `!summaryMap[val]` is false
\* for an inherited property, so no entry is made and the two `+=` write to
\* the inherited object: the map keeps its entries.
SummaryAccumulate(map, item, key) ==
  LET val == SummaryLabel(item, key)
      at == EntryIndex(map, val)
      fresh == [label |-> val, count |-> 0, totalDelay |-> 0,
                serial |-> item.DelaySerial]
      base == IF at = 0 THEN Append(map, fresh) ELSE map
      k == IF at = 0 THEN Len(base) ELSE at
  IN  IF at = 0 /\ val \in InheritedProperties THEN map
      ELSE [base EXCEPT ![k].count = @ + 1,
                        ![k].totalDelay = @ + item.DelayInSC]

RECURSIVE SummaryMap(_, _)
SummaryMap(items, key) ==
  IF items = <<>> THEN <<>>
  ELSE SummaryAccumulate(SummaryMap(SubSeq(items, 1, Len(items) - 1), key),
                         items[Len(items)], key)

\* A property name that is a canonical array index ("0", "2", "12").
IsIndexKey(label) ==
  /\ label # <<>>
  /\ \A i \in DOMAIN label : \E d \in DOMAIN Digits : Digits[d] = label[i]
  /\ (Len(label) > 1 => label[1] # "0")

DigitValue(c) == (CHOOSE d \in DOMAIN Digits : Digits[d] = c) - 1

\* The number a string of digits denotes.
RECURSIVE ParseDigits(_)
ParseDigits(str) ==
  IF str = <<>> THEN 0
  ELSE 10 * ParseDigits(SubSeq(str, 1, Len(str) - 1)) + DigitValue(str[Len(str)])

\* The collation order of the characters of the rollup keys: blank and
\* punctuation before the digits, the digits before the letters.
CollationOrder ==
  <<" ", "-", "0", "1", "2", "3", "4", "5", "6", "7", "8", "9", "F", "W", "Y">>

CharRank(c) ==
  IF \E i \in DOMAIN CollationOrder : CollationOrder[i] = c
    THEN CHOOSE i \in DOMAIN CollationOrder : CollationOrder[i] = c
    ELSE Len(CollationOrder) + 1

\* String.prototype.localeCompare on such keys: character by character,
\* a proper prefix first (so "W10" sorts before "W2").
RECURSIVE localeCompare(_, _)
localeCompare(a, b) ==
  IF a = <<>> /\ b = <<>> THEN 0
  ELSE IF a = <<>> THEN -1
  ELSE IF b = <<>> THEN 1
  ELSE IF CharRank(Head(a)) < CharRank(Head(b)) THEN -1
  ELSE IF CharRank(Head(a)) > CharRank(Head(b)) THEN 1
  ELSE localeCompare(Tail(a), Tail(b))

\* The sort comparators `b.serial - a.serial`, `b.avgDelay - a.avgDelay`
\* (avgDelay = totalDelay / count, compared by cross-multiplication),
\* `b.count - a.count`, `b.amount - a.amount` and
\* `a.key.localeCompare(b.key)`, and the ascending numeric order of
\* array-index keys.
Before(order, a, b) ==
  CASE order = "serial" -> a.serial > b.serial
    [] order = "avgDelay" -> a.totalDelay * b.count > b.totalDelay * a.count
    [] order = "count" -> a.count > b.count
    [] order = "amount" -> a.amount > b.amount
    [] order = "index" -> ParseDigits(a.label) < ParseDigits(b.label)
    [] order = "key" -> localeCompare(a.key, b.key) < 0

\* A stable sort: each element stays behind every element it does not
\* precede.
RECURSIVE SortStable(_, _)
SortStable(seq, order) ==
  IF seq = <<>> THEN <<>>
  ELSE LET sorted == SortStable(SubSeq(seq, 1, Len(seq) - 1), order)
           x == seq[Len(seq)]
           behind == {i \in DOMAIN sorted : ~Before(order, x, sorted[i])}
           last == IF behind = {} THEN 0
                   ELSE CHOOSE i \in behind : \A j \in behind : j <= i
       IN  SubSeq(sorted, 1, last) \o <<x>>
             \o SubSeq(sorted, last + 1, Len(sorted))

\* Object.entries: the array-index keys in ascending numeric order, then the
\* other keys in insertion order.
ObjectEntries(map) ==
  SortStable(SelectSeq(map, LAMBDA e : IsIndexKey(e.label)), "index")
    \o SelectSeq(map, LAMBDA e : ~IsIndexKey(e.label))

getSummaryData(items, key) ==
  LET summaryList == ObjectEntries(SummaryMap(items, key))
  IN  IF key = "DelayRange" THEN SortStable(summaryList, "serial")
      ELSE SortStable(summaryList, "avgDelay")

(***************************************************************************)
(* ConsumersReport.tsx / CollectionReport.tsx: the share tables            *)
(***************************************************************************)
Unknown == <<"U", "n", "k", "n", "o", "w", "n">>
UndefinedText == <<"u", "n", "d", "e", "f", "i", "n", "e", "d">>
OfficePrefixes == {<<"Z", "-">>, <<"R", "-">>, <<"D", "-">>, <<"C", "C", "C", "-">>}

\* String.prototype.trim for blanks.
RECURSIVE trim(_)
trim(str) ==
  IF str = <<>> THEN <<>>
  ELSE IF Head(str) = " " THEN trim(Tail(str))
  ELSE IF str[Len(str)] = " " THEN trim(SubSeq(str, 1, Len(str) - 1))
  ELSE str

\* `val.replace(/^(Z-|R-|D-|CCC-)/i, '').trim()`
formatValue(val) ==
  LET starts(p) == /\ Len(val) >= Len(p)
                   /\ toLowerCase(SubSeq(val, 1, Len(p))) = toLowerCase(p)
  IN  IF \E p \in OfficePrefixes : starts(p)
        THEN LET p == CHOOSE q \in OfficePrefixes : starts(q)
             IN  trim(SubSeq(val, Len(p) + 1, Len(val)))
        ELSE trim(val)

\* `officeMap[code] || code || ''`, formatted.
resolveName(map, code) ==
  LET known == {i \in DOMAIN map : map[i].code = code /\ Truthy(map[i].name)}
      rawName == IF known # {} THEN map[CHOOSE i \in known : TRUE].name
                 ELSE IF Truthy(code) THEN code ELSE <<>>
  IN  formatValue(rawName)

\* `((count / total) * 100).toFixed(1)` in tenths of a percent, for
\* total > 0 and count >= 0.  Number.prototype.toFixed rounds the binary
\* quotient, which for a decimal tie (x.x5) lies just above or just below
\* it: both neighbours are possible outcomes.
toFixed1Truncating(count, sum) == {(1000 * count) \div sum}

toFixed1(count, sum) ==
  LET down == (1000 * count) \div sum
      rest == 2 * ((1000 * count) % sum)
  IN  IF rest < sum THEN {down}
      ELSE IF rest > sum THEN {down + 1}
      ELSE {down, down + 1}

\* The reducer of ConsumersReport compute: `acc[val] = (acc[val] || 0) +
\* row.COUNT` under the name or the value of the grouping field.
\* A code without a name field is resolved to the office name.
ConsumerAccumulate(acc, r, field, nameField, map) ==
  LET named == nameField # "none" /\ Truthy(r[nameField])
      raw == IF named THEN r[nameField]
             ELSE IF Truthy(r[field]) THEN r[field] ELSE Unknown
      val == IF nameField = "none" /\ raw # Unknown /\ field \in HierarchyFields
               THEN resolveName(map, raw)
               ELSE raw
      at == EntryIndex(acc, val)
  IN  IF at = 0 THEN Append(acc, [label |-> val, count |-> r.COUNT])
      ELSE [acc EXCEPT ![at].count = @ + r.COUNT]

RECURSIVE ConsumerReduce(_, _, _, _)
ConsumerReduce(items, field, nameField, map) ==
  IF items = <<>> THEN <<>>
  ELSE ConsumerAccumulate(
         ConsumerReduce(SubSeq(items, 1, Len(items) - 1), field, nameField, map),
         items[Len(items)], field, nameField, map)

RECURSIVE SumField(_, _)
SumField(entries, field) ==
  IF entries = <<>> THEN 0
  ELSE Head(entries)[field] + SumField(Tail(entries), field)

\* ConsumersReport compute without the shares: the entries by count,
\* largest first, `undefined` shown as Unknown.
ConsumerTable(items, field, nameField, map) ==
  LET entries == ObjectEntries(ConsumerReduce(items, field, nameField, map))
      shown == [k \in DOMAIN entries |->
                  [entries[k] EXCEPT
                     !.label = IF @ = UndefinedText THEN Unknown ELSE @]]
  IN  SortStable(shown, "count")

\* The reducer of CollectionReport hierarchicalAggregates compute.
CollectionAccumulate(acc, r, officeField, map) ==
  LET code == IF Truthy(r[officeField]) THEN r[officeField] ELSE NA
      name == resolveName(map, code)
      at == EntryIndex(acc, name)
      base == IF at = 0
                THEN Append(acc, [label |-> name, count |-> 0, amount |-> 0])
                ELSE acc
      k == IF at = 0 THEN Len(base) ELSE at
  IN  IF at = 0 /\ name \in InheritedProperties THEN acc
      ELSE [base EXCEPT ![k].count = @ + r.COUNT,
                        ![k].amount = @ + r.AMOUNT_PAID]

RECURSIVE CollectionReduce(_, _, _)
CollectionReduce(items, officeField, map) ==
  IF items = <<>> THEN <<>>
  ELSE CollectionAccumulate(
         CollectionReduce(SubSeq(items, 1, Len(items) - 1), officeField, map),
         items[Len(items)], officeField, map)

\* hierarchicalAggregates compute: the entries by amount, largest first.
CollectionTable(items, officeField, map) ==
  SortStable(ObjectEntries(CollectionReduce(items, officeField, map)), "amount")

\* The share column of a table: the lists of shares the entries can get,
\* `measure` being count or amount; '0' for every entry when the total is
\* not positive.
RECURSIVE ShareColumns(_, _, _)
ShareColumns(entries, measure, sum) ==
  IF entries = <<>> THEN {<<>>}
  ELSE LET first == IF sum > 0 THEN toFixed1(Head(entries)[measure], sum)
                    ELSE {0}
       IN  {<<sh>> \o rest : sh \in first,
                             rest \in ShareColumns(Tail(entries), measure, sum)}

WithShares(entries, shares) ==
  [k \in DOMAIN entries |->
     [f \in DOMAIN entries[k] \cup {"share"} |->
        IF f = "share" THEN shares[k] ELSE entries[k][f]]]

(***************************************************************************)
(* dataService.ts: processCollectionAggregates                             *)
(***************************************************************************)
\* String.prototype.substring(from, to) for 0 <= from <= to.
substring(str, from, to) ==
  SubSeq(str, (IF from < Len(str) THEN from ELSE Len(str)) + 1,
              IF to < Len(str) THEN to ELSE Len(str))

IsDigits(str) ==
  \A i \in DOMAIN str : \E k \in DOMAIN Digits : Digits[k] = str[i]

IsLeapYear(y) == (y % 4 = 0 /\ y % 100 # 0) \/ y % 400 = 0

DaysInMonth(y, m) ==
  IF m = 2 THEN (IF IsLeapYear(y) THEN 29 ELSE 28)
  ELSE IF m \in {4, 6, 9, 11} THEN 30 ELSE 31

\* The days from 1 January 2000 to 1 January of year y >= 2000.
DaysBeforeYear(y) ==
  LET leaps(n) == n \div 4 - n \div 100 + n \div 400
  IN  365 * (y - 2000) + (leaps(y - 1) - leaps(1999))

RECURSIVE DaysBeforeMonth(_, _)
DaysBeforeMonth(y, m) ==
  IF m <= 1 THEN 0 ELSE DaysBeforeMonth(y, m - 1) + DaysInMonth(y, m - 1)

\* The day number of a date; a day past the end of its month counts on into
\* the next month, as a parser that accepts it does.
DayNumber(y, m, d) == DaysBeforeYear(y) + DaysBeforeMonth(y, m) + d - 1

\* Date.prototype.getDay of a day number: 1 January 2000 was a Saturday.
getDay(n) == (n + 6) % 7

\* `new Date(`${y}-${m}-${d}`)` of the three substrings: "valid" for a
\* calendar date, "invalid" for a text that is no date; a day of 29..31 past
\* the end of its month is rolled over by some engines and rejected by
\* others ("either").
DateParse(y, m, d) ==
  IF ~(Len(y) = 4 /\ Len(m) = 2 /\ Len(d) = 2 /\ IsDigits(y \o m \o d))
    THEN "invalid"
  ELSE IF ParseDigits(m) \notin 1..12 \/ ParseDigits(d) \notin 1..31
    THEN "invalid"
  ELSE IF ParseDigits(d) <= DaysInMonth(ParseDigits(y), ParseDigits(m))
    THEN "valid"
  ELSE "either"

\* A plausible slip: April counted with the year that ends.
fyKeyAfterApril(year, month) ==
  IF month > 4
    THEN <<"F", "Y", " ">> \o String(year) \o <<"-">> \o String(year + 1)
    ELSE <<"F", "Y", " ">> \o String(year - 1) \o <<"-">> \o String(year)

\* `month >= 4 ? `FY ${year}-${year + 1}` : `FY ${year - 1}-${year}``
fyKey(year, month) ==
  IF month >= 4
    THEN <<"F", "Y", " ">> \o String(year) \o <<"-">> \o String(year + 1)
    ELSE <<"F", "Y", " ">> \o String(year - 1) \o <<"-">> \o String(year)

\* The week number of a date for a clock tz minutes ahead of UTC.  dateObj
\* is midnight UTC of the date, firstDayOfYear is local midnight of
\* 1 January of the local year of dateObj, which is the year before for
\* 1 January west of Greenwich.
weekNumber(y, m, d, tz) ==
  LET day == DayNumber(y, m, d)
      localYear == IF tz < 0 /\ day = DaysBeforeYear(y) THEN y - 1 ELSE y
      firstDayOfYear == DaysBeforeYear(localYear)
      pastMinutesOfYear == (day - firstDayOfYear) * 1440 + tz
      sevenths == pastMinutesOfYear + (getDay(firstDayOfYear) + 1) * 1440
  IN  (sevenths + 10079) \div 10080

\* The four keys of a record whose date parsed.
RollupKeys(item, tz) ==
  LET y == substring(item.PAYMENT_DT, 0, 4)
      m == substring(item.PAYMENT_DT, 4, 6)
      d == substring(item.PAYMENT_DT, 6, 8)
      week == weekNumber(ParseDigits(y), ParseDigits(m), ParseDigits(d), tz)
  IN  [dailyCount |-> y \o <<"-">> \o m \o <<"-">> \o d,
       weeklyCount |-> y \o <<"-", "W">> \o String(week),
       monthlyCount |-> y \o <<"-">> \o m,
       fyCount |-> fyKey(ParseDigits(y), ParseDigits(m))]

\* Whether the record passes `if (isNaN(dateObj.getTime())) return;` in an
\* engine that rolls days over (lenient) or not.
DateAccepted(item, lenient) ==
  LET parsed == DateParse(substring(item.PAYMENT_DT, 0, 4),
                          substring(item.PAYMENT_DT, 4, 6),
                          substring(item.PAYMENT_DT, 6, 8))
  IN  parsed = "valid" \/ (parsed = "either" /\ lenient)

\* `if (!res[key]) res[key] = { count: 0, amount: 0 }; res[key].count +=
\* item.COUNT; res[key].amount += item.AMOUNT_PAID;`
RollupAdd(res, key, item) ==
  LET at == IF \E i \in DOMAIN res : res[i].key = key
              THEN CHOOSE i \in DOMAIN res : res[i].key = key
              ELSE 0
      base == IF at = 0
                THEN Append(res, [key |-> key, count |-> 0, amount |-> 0])
                ELSE res
      k == IF at = 0 THEN Len(base) ELSE at
  IN  [base EXCEPT ![k].count = @ + item.COUNT,
                   ![k].amount = @ + item.AMOUNT_PAID]

\* One rollup map after data.forEach, in insertion order.
RECURSIVE Rollup(_, _, _, _)
Rollup(items, which, tz, lenient) ==
  IF items = <<>> THEN <<>>
  ELSE LET before == Rollup(SubSeq(items, 1, Len(items) - 1), which, tz, lenient)
           item == items[Len(items)]
       IN  IF DateAccepted(item, lenient)
             THEN RollupAdd(before, RollupKeys(item, tz)[which], item)
             ELSE before

\* Object.entries(obj).map(...).sort by key.
sortAndMap(obj) == SortStable(obj, "key")

processCollectionAggregates(items, tz, lenient) ==
  [which \in {"dailyCount", "weeklyCount", "monthlyCount", "fyCount"} |->
     sortAndMap(Rollup(items, which, tz, lenient))]

(***************************************************************************)
(* googleSheetsService.ts: the cache in localStorage                       *)
(***************************************************************************)
\* In the cache layer a record is the sequence of its <<name, value>>
\* properties in creation order, names and values being strings; the values
\* null and undefined and the numbers are kept apart from every string:
\* Null, Undefined and Number(n).
Null == <<"<null>">>
Number(n) == <<"<number>">> \o String(n)
IsNumber(v) == v # <<>> /\ Head(v) = "<number>"

True == <<"<true>">>
False == <<"<false>">>

\* The truth value of a cell in a condition.
JsTruthy(v) == Truthy(v) /\ v # Null /\ v # Number(0) /\ v # False

\* `obj[name]`
Get(obj, name) ==
  IF \E i \in DOMAIN obj : obj[i][1] = name
    THEN obj[CHOOSE i \in DOMAIN obj : obj[i][1] = name][2]
    ELSE Undefined

\* Object.keys of a record, and of an array (its indices).
Keys(obj) == [i \in DOMAIN obj |-> obj[i][1]]
IndexKeys(arr) == [i \in DOMAIN arr |-> String(i - 1)]

\* A cached or fetched data set: an array of records ("objects"), the
\* compact array [headers, ...rowArrays] ("compact"), the office map
\* ("map"), or the values null and undefined.  `more` counts the further
\* elements of a long array, which are like its last item and are not
\* written out.
DataSet(form, headers, items, more) ==
  [form |-> form, headers |-> headers, items |-> items, more |-> more]

NullData == DataSet("null", <<>>, <<>>, 0)
UndefinedData == DataSet("undefined", <<>>, <<>>, 0)
Objects(items, more) == DataSet("objects", <<>>, items, more)
EmptyMap == DataSet("map", <<>>, <<>>, 0)

\* `data.length` of an "objects" array.
Length(data) == Len(data.items) + data.more

\* Variant of CachedTruthy that takes an empty array for a miss.
CachedTruthyWhenNonEmpty(data) ==
  data.form \notin {"null", "undefined"} /\ Length(data) > 0

\* `if (cached)`: arrays and objects are truthy, also when empty.
CachedTruthy(data) == data.form \notin {"null", "undefined"}

\* JSON.parse(JSON.stringify(data)): a property whose value is undefined
\* is left out of an object, an undefined element of an array becomes null.
JsonObject(obj) == SelectSeq(obj, LAMBDA prop : prop[2] # Undefined)
JsonArray(arr) == [i \in DOMAIN arr |-> IF arr[i] = Undefined THEN Null ELSE arr[i]]

JsonRoundTrip(data) ==
  CASE data.form = "objects" ->
         [data EXCEPT !.items = [i \in DOMAIN @ |-> JsonObject(@[i])]]
    [] data.form = "compact" ->
         [data EXCEPT !.items = [i \in DOMAIN @ |-> JsonArray(@[i])]]
    [] data.form = "map" -> [data EXCEPT !.items = JsonObject(@)]
    [] OTHER -> data

\* The keys of localStorage: the cache keys of CACHE_KEYS and what else
\* the origin stores.
CachePrefix == <<"m", "z", "o", "_", "c", "a", "c", "h", "e", "_">>
KeyUSERS == CachePrefix \o <<"u", "s", "e", "r", "s">>
KeyNSC == CachePrefix \o <<"n", "s", "c">>
KeyCONSUMERS == CachePrefix \o <<"c", "o", "n", "s", "u", "m", "e", "r", "s">>
KeyREPORTS == CachePrefix \o <<"r", "e", "p", "o", "r", "t", "s">>
KeyDOCKETS == CachePrefix \o <<"d", "o", "c", "k", "e", "t", "s">>
KeyCOLLECTION == CachePrefix \o <<"c", "o", "l", "l", "e", "c", "t", "i", "o", "n">>
KeyMAPPING == CachePrefix \o <<"m", "a", "p", "p", "i", "n", "g">>
KeyTheme == <<"m", "z", "o", "_", "t", "h", "e", "m", "e">>

CACHE_KEYS ==
  {KeyUSERS, KeyNSC, KeyCONSUMERS, KeyREPORTS, KeyDOCKETS, KeyCOLLECTION,
   KeyMAPPING}

\* `k.startsWith('mzo_cache_')`
startsWith(k, prefix) ==
  Len(k) >= Len(prefix) /\ SubSeq(k, 1, Len(prefix)) = prefix

\* What localStorage holds under a key.  A stored text is told by what
\* JSON.parse makes of it: no text at all ("absent"), the empty text
\* ("empty"), a text that is no JSON ("malformed"), the text `null`
\* ("null"), an object without a data property ("nodata"), or an entry
\* {data, timestamp} ("entry").
Stored(kind, data, timestamp) ==
  [kind |-> kind, data |-> data, timestamp |-> timestamp]

Absent == Stored("absent", NullData, 0)

\* localStorage.setItem(key, JSON.stringify({data, timestamp: Date.now()}))
setItem(store, key, data, clock) ==
  [store EXCEPT ![key] = Stored("entry", JsonRoundTrip(data), clock)]

\* Variant of Evictable that does not spare the key being written.
EvictableWithKey(store, key) ==
  {k \in DOMAIN store :
     store[k].kind # "absent" /\ startsWith(k, CachePrefix)}

\* The keys setCache removes after a quota error.
Evictable(store, key) ==
  {k \in DOMAIN store :
     store[k].kind # "absent" /\ startsWith(k, CachePrefix) /\ k # key}

\* setCache(key, data), the first write ending as `first` ("ok", "quota"
\* for a QuotaExceededError, "error" for any other exception) and a retry
\* as `retry` ("ok" or a failure): the storage afterwards, the number of
\* setItem calls and the keys removed.  It has no exit by exception.
setCache(store, key, data, clock, first, retry) ==
  IF first = "ok"
    THEN [storage |-> setItem(store, key, data, clock), writes |-> 1,
          evicted |-> {}]
  ELSE IF first = "quota"
    THEN LET cleared == [k \in DOMAIN store |->
                           IF k \in Evictable(store, key) THEN Absent
                           ELSE store[k]]
         IN  [storage |-> IF retry = "ok"
                            THEN setItem(cleared, key, data, clock)
                            ELSE cleared,
              writes |-> 2, evicted |-> Evictable(store, key)]
  ELSE [storage |-> store, writes |-> 1, evicted |-> {}]

\* getCache(key): `if (!item) return null; return JSON.parse(item).data`
\* with every exception answered by null.
getCache(store, key) ==
  CASE store[key].kind \in {"absent", "empty"} -> NullData
    [] store[key].kind \in {"malformed", "null"} -> NullData
    [] store[key].kind = "nodata" -> UndefinedData
    [] OTHER -> store[key].data

\* The names of the columns and fields the model follows; the other
\* columns of a sheet are treated like the text columns here.
NameDate == <<"d", "a", "t", "e">>
NameDATE == <<"D", "A", "T", "E">>
NameAPPL_NO == <<"A", "P", "P", "L", "_", "N", "O">>
NameSCN_STATUS == <<"S", "C", "N", "_", "S", "T", "A", "T", "U", "S">>
NameDelaySerial == <<"D", "e", "l", "a", "y", "S", "e", "r", "i", "a", "l">>
NameCccCode == <<"c", "c", "c", "_", "c", "o", "d", "e">>
NameCOUNT == <<"C", "O", "U", "N", "T">>
NamePAYMENT_DT == <<"P", "A", "Y", "M", "E", "N", "T", "_", "D", "T">>
NameAMOUNT_PAID == <<"A", "M", "O", "U", "N", "T", "_", "P", "A", "I", "D">>
NameAmountPaid == <<"A", "M", "O", "U", "N", "T", " ", "P", "A", "I", "D">>
NameRevenue == <<"r", "e", "v", "e", "n", "u", "e">>
NameDocNo == <<"d", "o", "c", "_", "n", "o">>
NameUserId == <<"u", "s", "e", "r", "_", "i", "d">>
NameIsActive == <<"i", "s", "_", "a", "c", "t", "i", "v", "e">>
NameOfficeName == <<"o", "f", "f", "i", "c", "e", "_", "n", "a", "m", "e">>
NameOffice == <<"o", "f", "f", "i", "c", "e">>

\* `key.toLowerCase().replace(/[^a-z0-9]/g, '')`
AlphaNumeric ==
  {LowerCase[i] : i \in DOMAIN LowerCase} \cup {Digits[i] : i \in DOMAIN Digits}

\* key.toLowerCase().replace(/[^a-z0-9]/g, ''), worked out once for the names
\* of the columns of the sheets.
ColumnNames ==
  {NameDate, NameDATE, NameAPPL_NO, NameSCN_STATUS, NameDelaySerial,
   NameCccCode, NameCOUNT, NamePAYMENT_DT, NameAMOUNT_PAID, NameAmountPaid,
   NameRevenue, NameDocNo, NameUserId, NameIsActive, NameOfficeName, NameOffice}

NormalizedColumnNames ==
  [key \in ColumnNames |->
     SelectSeq(toLowerCase(key), LAMBDA c : c \in AlphaNumeric)]

normalizedKey(key) ==
  IF key \in ColumnNames THEN NormalizedColumnNames[key]
  ELSE SelectSeq(toLowerCase(key), LAMBDA c : c \in AlphaNumeric)

\* getValue(r, key) for a record, and for an array, whose keys are its
\* indices: the value under the first key that is `key` up to case and
\* punctuation, undefined without such a key.
getValue(r, key) ==
  LET wanted == normalizedKey(key)
      hits == {i \in DOMAIN r : normalizedKey(r[i][1]) = wanted}
  IN  IF hits = {} THEN Undefined
      ELSE r[CHOOSE i \in hits : \A j \in hits : i <= j][2]

getValueOfArray(arr, key) ==
  LET keys == IndexKeys(arr)
      wanted == normalizedKey(key)
      hits == {i \in DOMAIN keys : normalizedKey(keys[i]) = wanted}
  IN  IF hits = {} THEN Undefined
      ELSE arr[CHOOSE i \in hits : \A j \in hits : i <= j]

\* String(value)
JsString(v) ==
  IF v = Undefined THEN UndefinedText
  ELSE IF v = Null THEN <<"n", "u", "l", "l">>
  ELSE IF IsNumber(v) THEN Tail(v)
  ELSE v

\* `parseInt(text) || 0`, `parseFloat(text) || 0` for whole numbers: the
\* number the leading digits denote, 0 for a text without any, for the
\* empty text and for undefined.
RECURSIVE LeadingDigits(_)
LeadingDigits(text) ==
  IF text = <<>> \/ ~IsDigits(<<Head(text)>>) THEN <<>>
  ELSE <<Head(text)>> \o LeadingDigits(Tail(text))

parseOrZero(v) ==
  IF v = Undefined \/ v = Null THEN Number(0)
  ELSE Number(ParseDigits(LeadingDigits(v)))

\* The activation rule of fetchUsersFromSheet.
isActive(rawIsActive) ==
  IF rawIsActive \in {Undefined, <<>>, <<"T", "R", "U", "E">>,
                      <<"t", "r", "u", "e">>, <<"1">>, <<"Y">>}
    THEN True ELSE False

\* The data sets with a cache entry and a fetch function.
Datasets ==
  {"nsc", "consumers", "reports", "dockets", "collection", "users", "mapping"}

CacheKey(d) ==
  CASE d = "nsc" -> KeyNSC
    [] d = "consumers" -> KeyCONSUMERS
    [] d = "reports" -> KeyREPORTS
    [] d = "dockets" -> KeyDOCKETS
    [] d = "collection" -> KeyCOLLECTION
    [] d = "users" -> KeyUSERS
    [] d = "mapping" -> KeyMAPPING

\* `a || b`
Or(a, b) == IF JsTruthy(a) THEN a ELSE b

\* The record a fetch function builds from a sheet row (rawData.map).
BuildRecord(d, r) ==
  CASE d = "nsc" ->
         <<<<NameDate, getValue(r, NameDate)>>,
           <<NameAPPL_NO, getValue(r, NameAPPL_NO)>>,
           <<NameSCN_STATUS, getValue(r, NameSCN_STATUS)>>,
           <<NameDelaySerial, parseOrZero(getValue(r, NameDelaySerial))>>>>
    [] d = "consumers" ->
         <<<<NameDate, getValue(r, NameDate)>>,
           <<NameCccCode, getValue(r, NameCccCode)>>,
           <<NameCOUNT, parseOrZero(getValue(r, NameCOUNT))>>>>
    [] d = "reports" ->
         <<<<NameDate, getValue(r, NameDate)>>,
           <<NameRevenue, parseOrZero(getValue(r, NameRevenue))>>>>
    [] d = "dockets" ->
         <<<<NameDate, getValue(r, NameDate)>>,
           <<NameDocNo, getValue(r, NameDocNo)>>>>
    [] d = "collection" ->
         <<<<NameDate, getValue(r, NameDate)>>,
           <<NamePAYMENT_DT, JsString(getValue(r, NamePAYMENT_DT))>>,
           <<NameCOUNT, parseOrZero(getValue(r, NameCOUNT))>>,
           <<NameAMOUNT_PAID,
             Or(parseOrZero(getValue(r, NameAmountPaid)),
                parseOrZero(getValue(r, NameAMOUNT_PAID)))>>>>
    [] d = "users" ->
         <<<<NameUserId, JsString(getValue(r, NameUserId))>>,
           <<NameIsActive, isActive(getValue(r, NameIsActive))>>>>

\* The office map fetchOfficeMapping builds: the name of each row under its
\* ccc_code (a later row replaces the name of an earlier one).
RECURSIVE BuildMap(_)
BuildMap(rows) ==
  IF rows = <<>> THEN <<>>
  ELSE LET map == BuildMap(SubSeq(rows, 1, Len(rows) - 1))
           r == rows[Len(rows)]
           name == Or(getValue(r, NameOfficeName), getValue(r, NameOffice))
           code == getValue(r, NameCccCode)
           at == {i \in DOMAIN map : map[i][1] = JsString(code)}
       IN  IF ~JsTruthy(name) \/ ~JsTruthy(code) THEN map
           ELSE IF at = {} THEN Append(map, <<JsString(code), name>>)
           ELSE [map EXCEPT ![CHOOSE i \in at : TRUE] = <<JsString(code), name>>]

\* The data set a fetch function builds from the rows of its sheet.
BuildData(d, raw) ==
  IF d = "mapping" THEN DataSet("map", <<>>, BuildMap(raw.items), 0)
  ELSE Objects([i \in DOMAIN raw.items |-> BuildRecord(d, raw.items[i])],
               raw.more)

\* What a fetch function returns when the request fails or is not OK.
EmptyResult(d) == IF d = "mapping" THEN EmptyMap ELSE Objects(<<>>, 0)

\* The size above which fetchPendingNSCFromSheet caches the compact form.
CompactThreshold == 500

\* `[headers, ...data.map(obj => headers.map(h => obj[h]))]`
Compact(data) ==
  LET headers == Keys(data.items[1])
  IN  DataSet("compact", headers,
              [i \in DOMAIN data.items |->
                 [j \in DOMAIN headers |-> Get(data.items[i], headers[j])]],
              data.more)

\* The records fetchPendingNSCFromSheet rebuilds from the compact form.
Reconstruct(cached) ==
  Objects([i \in DOMAIN cached.items |->
             [j \in DOMAIN cached.headers |->
                <<cached.headers[j],
                  IF j \in DOMAIN cached.items[i] THEN cached.items[i][j]
                  ELSE Undefined>>]],
          cached.more)

\* The outcomes of a network request: answered OK, answered with another
\* status, or failed (fetch rejects).
Responses == {"ok", "notOk", "fail"}

\* The outcomes of the first write of setCache and of its retry.
FirstWrites == {"ok", "quota", "error"}
Retries == {"ok", "fail"}

\* Variant of fetchFromSheet that caches an empty result whatever the
\* answer to its request.
fetchFromSheetCachingEmpty(d, store, raw, clock, response, first, retry) ==
  [returned |-> EmptyResult(d), threw |-> FALSE,
   cached |-> getCache(store, CacheKey(d)), cachedData |-> EmptyResult(d),
   storage |-> setItem(store, CacheKey(d), EmptyResult(d), clock),
   requests |-> 1, writes |-> 1, evicted |-> {}]

\* One call of a fetch function (fetchPendingNSCFromSheet,
\* fetchConsumersFromSheet, ...): what it returns, the data it gave to
\* setCache (null when it gave none), the storage afterwards, and the
\* value getCache gave it, the number of requests, setItem calls and keys
\* removed.
fetchFromSheet(d, store, raw, clock, response, first, retry) ==
  LET cached == getCache(store, CacheKey(d))
  IN  IF CachedTruthy(cached)
        THEN [returned |-> IF d = "nsc" /\ cached.form = "compact"
                             THEN Reconstruct(cached) ELSE cached,
              threw |-> FALSE, cached |-> cached, cachedData |-> NullData, storage |-> store,
              requests |-> 0, writes |-> 0, evicted |-> {}]
      ELSE IF response # "ok"
        THEN [returned |-> EmptyResult(d), threw |-> FALSE, cached |-> cached,
              cachedData |-> NullData, storage |-> store,
              requests |-> 1, writes |-> 0, evicted |-> {}]
      ELSE CHOOSE out \in
             UNION {UNION {{[returned |-> data, threw |-> FALSE, cached |-> cached,
                             cachedData |-> toCache,
                             storage |-> written.storage, requests |-> 1,
                             writes |-> written.writes,
                             evicted |-> written.evicted] :
                              written \in {setCache(store, CacheKey(d), toCache,
                                                    clock, first, retry)}} :
                           toCache \in {IF d = "nsc"
                                             /\ Length(data) > CompactThreshold
                                          THEN Compact(data) ELSE data}} :
                    data \in {BuildData(d, raw)}} : TRUE

\* The date of the first row of the cached copy as syncSheetBackground
\* reads it: `cachedData && cachedData.length > 0 ? (getValue(cachedData[0],
\* 'date') || getValue(cachedData[0], 'DATE')) : null`.  The first element
\* of the compact form is the array of headers.
cachedFirstRowDate(cachedData) ==
  CASE cachedData.form = "objects" /\ Length(cachedData) > 0 ->
         Or(getValue(cachedData.items[1], NameDate),
            getValue(cachedData.items[1], NameDATE))
    [] cachedData.form = "compact" ->
         Or(getValueOfArray(cachedData.headers, NameDate),
            getValueOfArray(cachedData.headers, NameDATE))
    [] OTHER -> Null

\* One run of syncSheetBackground for a data set: the probe of the first
\* row answered as `probe`, the full request as `full`.
syncSheetBackground(d, store, raw, clock, probe, full, first, retry) ==
  LET cached == getCache(store, CacheKey(d))
      unchanged(n) == [storage |-> store, requests |-> n, writes |-> 0,
                       evicted |-> {}, events |-> <<>>, fetched |-> FALSE,
                       cached |-> cached, reads |-> 1]
      latestDate == Or(getValue(raw.items[1], NameDate),
                       getValue(raw.items[1], NameDATE))
      cachedDate == cachedFirstRowDate(cached)
      written == setCache(store, CacheKey(d), raw, clock, first, retry)
  IN  IF probe # "ok" \/ raw.items = <<>>
        THEN [unchanged(1) EXCEPT !.cached = NullData, !.reads = 0]
      ELSE IF JsString(latestDate) = JsString(cachedDate) THEN unchanged(1)
      ELSE IF full # "ok" THEN unchanged(2)
      ELSE [storage |-> written.storage, requests |-> 2,
            writes |-> written.writes, evicted |-> written.evicted,
            events |-> <<CacheKey(d)>>, fetched |-> TRUE,
            cached |-> cached, reads |-> 1]

\* A call that has not been made.
NoCall ==
  [op |-> "none", returned |-> NullData, threw |-> FALSE,
   cached |-> NullData, reads |-> 0, cachedData |-> NullData, requests |-> 0, writes |-> 0, evicted |-> {},
   events |-> <<>>, fetched |-> FALSE, response |-> "none",
   first |-> "none", retry |-> "none",
   before |-> <<>>, at |-> 0]

\* No background sync has been started.
NoSweep == [pc |-> "idle", threw |-> FALSE, events |-> <<>>, before |-> <<>>]

SweepIdle ==
  /\ sweep = NoSweep
  /\ tasks = <<>>
  /\ sheets = <<>>

\* No screen is on display.
NoScreen == [name |-> "none"]

ScreenIdle ==
  /\ screen = NoScreen
  /\ loads = <<>>

\* The cache layer before the application has started.
CacheIdle ==
  /\ storage = <<>>
  /\ sheet = NullData
  /\ now = 0
  /\ focus = "none"
  /\ call = NoCall

(***************************************************************************)
(* Scope specification: the restriction applied to one record and one user *)
(***************************************************************************)
\* Codes a record can carry: unset, an empty cell, or a code.
RowCodes == {Undefined, <<>>, Code6613001, Code6613002}
\* Codes a user descriptor can carry.
UserCodes == {Undefined, <<>>, Code6613001}

ScopeRows == [HierarchyFields -> RowCodes]
ScopeUsers ==
  [role : SheetRoles, zone_code : UserCodes, region_code : UserCodes,
   division_code : UserCodes, ccc_code : UserCodes]

NoRow == [f \in HierarchyFields |-> Undefined]

InitScope ==
  /\ phase = "input"
  /\ user \in ScopeUsers
  /\ row \in ScopeRows
  /\ inScope = FALSE
  /\ dataset = "none"
  /\ allData = <<>>
  /\ filters = EmptyFilters
  /\ result = NoResult
  /\ CacheIdle
  /\ SweepIdle
  /\ ScreenIdle
  /\ ReportIdle

\* One evaluation of applyHierarchyRestriction(row, user).
ApplyHierarchyRestriction ==
  /\ phase = "input"
  /\ inScope' = applyHierarchyRestriction(row, user)
  /\ phase' = "done"
  /\ UNCHANGED <<user, row>>
  /\ UNCHANGED fetchVars
  /\ UNCHANGED reportVars
  /\ UNCHANGED cacheVars
  /\ UNCHANGED sweepVars
  /\ UNCHANGED screenVars

NextScope == ApplyHierarchyRestriction

SpecScope == InitScope /\ [][NextScope]_vars

(***************************************************************************)
(* Data-service specification: one call of a fetch function of             *)
(* dataService.ts on the records its provider returned                     *)
(***************************************************************************)
\* The most records a provider returns in the model.
MaxRows == 2

SeqsUpTo(S, n) == UNION {[1..k -> S] : k \in 0..n}

\* A pending application as fetchPendingNSCFromSheet builds it.
DefaultNSC ==
  [zone_code |-> Code6613001, region_code |-> Code6613001,
   division_code |-> Code6613001, ccc_code |-> Code6613001,
   DelayRange |-> Day0to3, PoleNonPole |-> ValA, APPLICANT_TYPE |-> ValA,
   CONN_CLASS |-> ValA, IS_DUARE_SARKAR |-> ValA, IS_PORTAL_APPL |-> ValA,
   WO_ISSUED |-> ValA, DIVN_NAME |-> ValA, SUPP_OFFLOAD_WATTS |-> 2,
   APPLIED_PHASE |-> ValA, NO_OF_POLES |-> 2,
   APPL_NO |-> Text7A, NAME |-> RameshKumar, PHONE_NO |-> Text97,
   DelayInSC |-> 0, DelaySerial |-> 0]

\* A consumer bucket: fetchConsumersFromSheet sets ccc_code and the technical
\* fields; region_code, division_code and ccc_name are set only in rows that
\* carry those columns.
DefaultConsumer ==
  [region_code |-> Undefined, division_code |-> Undefined,
   ccc_code |-> Code6613001, ccc_name |-> Undefined,
   CONN_STAT |-> ValA, BASE_CLASS |-> ValA, CATEGORY |-> ValA,
   TYPE_OF_METER |-> ValA, CONN_PHASE |-> ValA, GOVT_STAT |-> ValA,
   CONN_BY |-> ValA, COUNT |-> 1]

\* A docket as fetchDocketDataFromSheet builds it.
DefaultDocket ==
  [zone_code |-> Code6613001, region_code |-> Code6613001,
   division_code |-> Code6613001, ccc_code |-> Code6613001,
   doc_no |-> Text7A, PARTY_NAME |-> RameshKumar, con_id |-> Text97,
   prob_type |-> ValA]

\* The dates of the report records and of the bounds of the date filter.
Date20240315 == <<"2", "0", "2", "4", "-", "0", "3", "-", "1", "5">>
Date20240401 == <<"2", "0", "2", "4", "-", "0", "4", "-", "0", "1">>

\* A daily report as fetchReportsFromSheet builds it, and a payment bucket
\* as fetchCollectionDataFromSheet builds it.
DefaultReport ==
  [date |-> Date20240315, zone_code |-> Code6613001,
   region_code |-> Code6613001, division_code |-> Code6613001,
   ccc_code |-> Code6613001]
DefaultPayment ==
  [date |-> Date20240315, zone_code |-> Code6613001,
   region_code |-> Code6613001, division_code |-> Code6613001,
   ccc_code |-> Code6613001, PAYMENT_DT |-> Date20240315]

DefaultRow(kind) ==
  CASE kind = "nsc" -> DefaultNSC
    [] kind = "consumers" -> DefaultConsumer
    [] kind = "dockets" -> DefaultDocket
    [] kind = "reports" -> DefaultReport
    [] kind = "collection" -> DefaultPayment

\* The hierarchy-code fields a dataset's records can carry.
CodeFields(kind) ==
  IF kind = "consumers" THEN {"region_code", "division_code", "ccc_code"}
  ELSE HierarchyFields

\* The multi-select filters of a fetch function, each with the record field
\* it constrains.
NSCMultiSelect ==
  {<<"delayRange", "DelayRange">>, <<"poleNonPole", "PoleNonPole">>,
   <<"applicantType", "APPLICANT_TYPE">>, <<"connClass", "CONN_CLASS">>,
   <<"isDuareSarkar", "IS_DUARE_SARKAR">>, <<"isPortalAppl", "IS_PORTAL_APPL">>,
   <<"woIssued", "WO_ISSUED">>, <<"divnName", "DIVN_NAME">>,
   <<"suppOffloadWatts", "SUPP_OFFLOAD_WATTS">>,
   <<"appliedPhase", "APPLIED_PHASE">>, <<"noOfPoles", "NO_OF_POLES">>}
ConsumerMultiSelect ==
  {<<"regionCodes", "region_code">>, <<"divisionCodes", "division_code">>,
   <<"cccCodes", "ccc_code">>, <<"connStat", "CONN_STAT">>,
   <<"baseClass", "BASE_CLASS">>, <<"category", "CATEGORY">>,
   <<"meterType", "TYPE_OF_METER">>, <<"connPhase", "CONN_PHASE">>,
   <<"govtStat", "GOVT_STAT">>, <<"connBy", "CONN_BY">>}
MultiSelect(kind) ==
  CASE kind = "nsc" -> NSCMultiSelect
    [] kind = "consumers" -> ConsumerMultiSelect
    [] kind = "dockets" -> {}

\* The fields the provider parses to a number.
\* The text fields a search reads, in the order the code reads them.
SearchedFields(kind) ==
  CASE kind = "nsc" -> <<"APPL_NO", "NAME", "PHONE_NO">>
    [] kind = "dockets" -> <<"doc_no", "PARTY_NAME", "con_id">>
    [] kind = "consumers" -> <<"ccc_code", "ccc_name", "CATEGORY", "CONN_STAT">>

\* Users: a role, the codes of the other levels set, the code of the own
\* level absent, empty or set.
FetchUsers ==
  {u \in ScopeUsers :
     \A f \in HierarchyFields :
       (u.role \notin UserRole \/ f # RoleField(u.role)) => u[f] = Code6613001}

ZoneUser ==
  [role |-> "ZONE", zone_code |-> Code6613001, region_code |-> Code6613001,
   division_code |-> Code6613001, ccc_code |-> Code6613001]
CCCUser == [ZoneUser EXCEPT !.role = "CCC"]

\* Records that differ from the default in the code of one level.
HierRows(kind) ==
  {[DefaultRow(kind) EXCEPT ![f] = v] : f \in CodeFields(kind), v \in RowCodes}

\* Filter specifications with at most one single-select hierarchy filter.
HierFilters ==
  {EmptyFilters,
   [EmptyFilters EXCEPT !.zone = <<>>],
   [EmptyFilters EXCEPT !.division = Code6613001],
   [EmptyFilters EXCEPT !.ccc = Code6613002]}

\* The values a multi-select field takes in the records, and the selections
\* the filter page can hold for it (toggleFilter adds and removes values
\* that getUniqueValues offers, which are never empty strings).
FieldValues(field) ==
  IF field \in NumericFields THEN {0, 2, 12}
  ELSE IF field = "DelayRange" THEN {Day0to3, Day4to7, Day8to15, <<>>, Undefined}
  ELSE IF field \in HierarchyFields THEN RowCodes
  ELSE {ValA, ValB, <<>>, Undefined}
Selections(field) ==
  IF field \in NumericFields
    THEN {NoArray, Array(<<>>), Array(<<Str2>>), Array(<<Str12, Str2>>)}
  ELSE IF field = "DelayRange"
    THEN {NoArray, Array(<<>>), Array(<<Day4to7>>), Array(<<Day0to3, Day4to7>>)}
  ELSE IF field \in HierarchyFields
    THEN {NoArray, Array(<<>>), Array(<<Code6613002>>),
          Array(<<Code6613002, Code6613001>>)}
  ELSE {NoArray, Array(<<>>), Array(<<ValB>>), Array(<<ValB, ValA>>)}

\* The values of a searched text field, and the queries typed.
TextValues(field) ==
  IF field \in {"NAME", "PARTY_NAME"} THEN {RameshKumar, ShyamLal, Undefined}
  ELSE IF field \in {"APPL_NO", "doc_no"} THEN {Text7A, Undefined}
  ELSE {Text97, Undefined}
Queries == {Undefined, <<>>, QueryRam, QueryRamCaps, Query7, QueryZz}

SearchRows(kind) ==
  LET fs == SearchedFields(kind)
  IN  {[DefaultRow(kind) EXCEPT ![fs[1]] = a, ![fs[2]] = b, ![fs[3]] = c] :
         a \in TextValues(fs[1]), b \in TextValues(fs[2]), c \in TextValues(fs[3])}

\* The scenario of the scope check: two records of two CCCs.
ScenarioCCC ==
  <<[DefaultNSC EXCEPT !.ccc_code = Code6613001, !.DelayRange = Day0to3],
    [DefaultNSC EXCEPT !.ccc_code = Code6613002, !.DelayRange = Day8plus]>>

\* The scenario of the multi-select filter: five records, two ranges chosen.
ScenarioDelay ==
  <<[DefaultNSC EXCEPT !.DelayRange = Day0to3],
    [DefaultNSC EXCEPT !.DelayRange = Day4to7],
    [DefaultNSC EXCEPT !.DelayRange = Day8to15],
    [DefaultNSC EXCEPT !.DelayRange = Day0to3],
    [DefaultNSC EXCEPT !.DelayRange = Day16plus]>>
ScenarioDelayFilters ==
  [EmptyFilters EXCEPT !.delayRange = Array(<<Day0to3, Day4to7>>)]

\* Inputs that exercise the mandatory scope and the hierarchy filters.
InitFetchScope ==
  /\ dataset \in {"nsc", "consumers", "dockets"}
  /\ user \in FetchUsers
  /\ filters \in HierFilters
  /\ allData \in SeqsUpTo(HierRows(dataset), MaxRows)
                   \cup (IF dataset = "nsc" THEN {ScenarioCCC} ELSE {})

\* Inputs that exercise one multi-select filter.
InitFetchMultiSelect ==
  /\ dataset \in {"nsc", "consumers"}
  /\ user \in {ZoneUser, CCCUser}
  /\ \E m \in MultiSelect(dataset) :
       /\ filters \in {[EmptyFilters EXCEPT ![m[1]] = c] : c \in Selections(m[2])}
       /\ allData \in
            SeqsUpTo({[DefaultRow(dataset) EXCEPT ![m[2]] = v] :
                        v \in FieldValues(m[2])}, MaxRows)
              \cup (IF m[1] = "delayRange" THEN {ScenarioDelay} ELSE {})

\* Inputs that exercise the free-text search.
InitFetchSearch ==
  /\ dataset \in {"nsc", "dockets"}
  /\ user \in {ZoneUser, CCCUser}
  /\ filters \in {[EmptyFilters EXCEPT !.searchQuery = q] : q \in Queries}
  /\ allData \in SeqsUpTo(SearchRows(dataset), MaxRows)

\* Inputs that exercise the scope and the hierarchy filters of the report
\* and collection screens.
InitFetchReports ==
  /\ dataset \in {"reports", "collection"}
  /\ user \in FetchUsers
  /\ filters \in HierFilters
  /\ allData \in SeqsUpTo(HierRows(dataset), MaxRows)

\* Inputs that exercise the date filter of the report screen.
DateValues == {Undefined, <<>>, Date20240315, Date20240401}
InitFetchDateRange ==
  /\ dataset = "reports"
  /\ user \in {ZoneUser, CCCUser}
  /\ filters \in {[EmptyFilters EXCEPT !.dateRange = DateRange(a, b)] :
                     a \in DateValues, b \in DateValues}
  /\ allData \in SeqsUpTo({[DefaultReport EXCEPT !.date = d] :
                              d \in DateValues}, MaxRows)

InitFetch ==
  /\ phase = "input"
  /\ row = NoRow
  /\ inScope = FALSE
  /\ result = NoResult
  /\ CacheIdle
  /\ SweepIdle
  /\ ScreenIdle
  /\ ReportIdle
  /\ \/ InitFetchScope
     \/ InitFetchMultiSelect
     \/ InitFetchSearch
     \/ InitFetchReports
     \/ InitFetchDateRange

FetchNSCData ==
  /\ phase = "input"
  /\ dataset = "nsc"
  /\ result' = fetchNSCData(user, filters, allData)
  /\ phase' = "done"
  /\ UNCHANGED <<user, dataset, allData, filters>>
  /\ UNCHANGED scopeVars
  /\ UNCHANGED cacheVars
  /\ UNCHANGED sweepVars
  /\ UNCHANGED reportVars
  /\ UNCHANGED screenVars

FetchConsumerData ==
  /\ phase = "input"
  /\ dataset = "consumers"
  /\ result' = fetchConsumerData(user, filters, allData)
  /\ phase' = "done"
  /\ UNCHANGED <<user, dataset, allData, filters>>
  /\ UNCHANGED scopeVars
  /\ UNCHANGED cacheVars
  /\ UNCHANGED sweepVars
  /\ UNCHANGED reportVars
  /\ UNCHANGED screenVars

FetchDocketData ==
  /\ phase = "input"
  /\ dataset = "dockets"
  /\ result' = fetchDocketData(user, filters, allData)
  /\ phase' = "done"
  /\ UNCHANGED <<user, dataset, allData, filters>>
  /\ UNCHANGED scopeVars
  /\ UNCHANGED cacheVars
  /\ UNCHANGED sweepVars
  /\ UNCHANGED reportVars
  /\ UNCHANGED screenVars

FetchFilteredData ==
  /\ phase = "input"
  /\ dataset = "reports"
  /\ result' = fetchFilteredData(user, filters, allData)
  /\ phase' = "done"
  /\ UNCHANGED <<user, dataset, allData, filters>>
  /\ UNCHANGED scopeVars
  /\ UNCHANGED cacheVars
  /\ UNCHANGED sweepVars
  /\ UNCHANGED reportVars
  /\ UNCHANGED screenVars

FetchCollectionData ==
  /\ phase = "input"
  /\ dataset = "collection"
  /\ result' = fetchCollectionData(user, filters, allData)
  /\ phase' = "done"
  /\ UNCHANGED <<user, dataset, allData, filters>>
  /\ UNCHANGED scopeVars
  /\ UNCHANGED cacheVars
  /\ UNCHANGED sweepVars
  /\ UNCHANGED reportVars
  /\ UNCHANGED screenVars

NextFetch ==
  \/ FetchNSCData
  \/ FetchConsumerData
  \/ FetchDocketData
  \/ FetchFilteredData
  \/ FetchCollectionData

SpecFetch == InitFetch /\ [][NextFetch]_vars

(***************************************************************************)
(* Summary specification: getSummaryData on the records on display         *)
(***************************************************************************)
\* The most records on display in the model.
MaxSummaryRows == 2

SummaryKeys == {"DelayRange", "CONN_CLASS", "NO_OF_POLES"}

SummaryRows ==
  {[DefaultNSC EXCEPT !.DelayRange = r, !.DelaySerial = ser,
                      !.DelayInSC = d, !.NO_OF_POLES = n] :
     r \in {Day0to3, Day4to7, <<>>, Undefined, NA, Constructor},
     ser \in {1, 2}, d \in {0, 3}, n \in {0, 2}}

InitSummary ==
  /\ phase = "input"
  /\ user = ZoneUser
  /\ row = NoRow
  /\ inScope = FALSE
  /\ dataset = "nsc"
  /\ allData = <<>>
  /\ filters = EmptyFilters
  /\ result = NoResult
  /\ CacheIdle
  /\ SweepIdle
  /\ ScreenIdle
  /\ screenData \in SeqsUpTo(SummaryRows, MaxSummaryRows)
  /\ groupKey \in SummaryKeys
  /\ summary = <<>>
  /\ officeMap = NoOffices
  /\ total = 0
  /\ aggregates = NoAggregates

GetSummaryData ==
  /\ phase = "input"
  /\ groupKey \in SummaryKeys
  /\ summary' = getSummaryData(screenData, groupKey)
  /\ phase' = "done"
  /\ UNCHANGED <<user, screenData, groupKey, officeMap, total, aggregates>>
  /\ UNCHANGED scopeVars
  /\ UNCHANGED cacheVars
  /\ UNCHANGED sweepVars
  /\ UNCHANGED fetchVars
  /\ UNCHANGED screenVars

NextSummary == GetSummaryData

SpecSummary == InitSummary /\ [][NextSummary]_vars

(***************************************************************************)
(* Docket specification: calculateDocketKPIs on the dockets on display     *)
(***************************************************************************)
KeywordFuse == <<"f", "u", "s", "e">>
KeywordTransformer == <<"t", "r", "a", "n", "s", "f", "o", "r", "m", "e", "r">>
KeywordBreakdown == <<"b", "r", "e", "a", "k", "d", "o", "w", "n">>
KeywordBill == <<"b", "i", "l", "l">>
KeywordPayment == <<"p", "a", "y", "m", "e", "n", "t">>

\* The filter callback of technicalComplaints.
IsTechnical(d) ==
  \/ StrIncludes(toLowerCase(d.prob_type), KeywordFuse)
  \/ StrIncludes(toLowerCase(d.prob_type), KeywordTransformer)
  \/ StrIncludes(toLowerCase(d.prob_type), KeywordBreakdown)

\* The filter callback of billingComplaints.
IsBilling(d) ==
  \/ StrIncludes(toLowerCase(d.prob_type), KeywordBill)
  \/ StrIncludes(toLowerCase(d.prob_type), KeywordPayment)

\* Number.prototype.toLocaleString of an integer below a thousand in
\* absolute value: the digits, with no grouping separator.
toLocaleString(n) == IF n < 0 THEN <<"-">> \o String(0 - n) ELSE String(n)

\* data.filter(callback).length
CountDockets(dockets, technical) ==
  Len(SelectSeq(dockets, LAMBDA d : IF technical THEN IsTechnical(d)
                                                 ELSE IsBilling(d)))

\* calculateDocketKPIs(data): the four cards, or a TypeError when the
\* prob_type of a docket is undefined.
calculateDocketKPIs(dockets) ==
  IF \E i \in DOMAIN dockets : dockets[i].prob_type = Undefined
    THEN [threw |-> TRUE, kpis |-> <<>>]
    ELSE LET totalDockets == Len(dockets)
             technicalComplaints == CountDockets(dockets, TRUE)
             billingComplaints == CountDockets(dockets, FALSE)
         IN  [threw |-> FALSE,
              kpis |->
                <<[label |-> "Total Dockets",
                   value |-> toLocaleString(totalDockets)],
                  [label |-> "Technical",
                   value |-> toLocaleString(technicalComplaints)],
                  [label |-> "Billing",
                   value |-> toLocaleString(billingComplaints)],
                  [label |-> "Others",
                   value |-> toLocaleString(totalDockets - technicalComplaints
                                              - billingComplaints)]>>]

\* The most dockets on display in the model.
MaxDockets == 3

\* The problem types of the dockets: of one group, of the other, of both,
\* of none, and absent.
ProblemTypes ==
  {<<"F", "u", "s", "e", " ", "C", "a", "l", "l">>, <<"B", "i", "l", "l", " ", "D", "i", "s", "p", "u", "t", "e">>, <<"F", "u", "s", "e", " ", "B", "i", "l", "l">>, <<"N", "o", " ", "S", "u", "p", "p", "l", "y">>, <<"P", "a", "y", "m", "e", "n", "t">>, Undefined}

DocketRows == {[DefaultDocket EXCEPT !.prob_type = t] : t \in ProblemTypes}

InitDocket ==
  /\ phase = "input"
  /\ user = ZoneUser
  /\ row = NoRow
  /\ inScope = FALSE
  /\ dataset = "dockets"
  /\ allData = <<>>
  /\ filters = EmptyFilters
  /\ result = NoResult
  /\ CacheIdle
  /\ SweepIdle
  /\ ScreenIdle
  /\ screenData \in SeqsUpTo(DocketRows, MaxDockets)
  /\ groupKey = "none"
  /\ summary = <<>>
  /\ officeMap = NoOffices
  /\ total = 0
  /\ aggregates = NoAggregates

\* The docket screen computes its cards from the dockets on display.
CalculateDocketKPIs ==
  /\ phase = "input"
  /\ \E out \in {calculateDocketKPIs(screenData)} :
       /\ summary' = out.kpis
       /\ phase' = IF out.threw THEN "threw" ELSE "done"
  /\ UNCHANGED <<user, screenData, groupKey, officeMap, total, aggregates>>
  /\ UNCHANGED scopeVars
  /\ UNCHANGED cacheVars
  /\ UNCHANGED sweepVars
  /\ UNCHANGED fetchVars
  /\ UNCHANGED screenVars

NextDocket == CalculateDocketKPIs

SpecDocket == InitDocket /\ [][NextDocket]_vars

(***************************************************************************)
(* Share specification: the distribution tables of the consumer screen and *)
(* the office tables of the collection screen                              *)
(***************************************************************************)
\* The most records on display in the model.
MaxShareRows == 3

\* A collection record as fetchCollectionDataFromSheet builds it.
DefaultCollection ==
  [zone_code |-> Code6613001, region_code |-> Code6613001,
   division_code |-> Code6613001, ccc_code |-> Code6613001,
   PAYMENT_DT |-> <<"2", "0", "2", "4", "0", "4", "0", "1">>,
   MODE |-> ValA, COUNT |-> 1, AMOUNT_PAID |-> 1]

\* Record counts and amounts: 1 + 1 + 1 gives three shares that round
\* down, 1 + 1 + 15 three that round up, 1 + 15 two decimal ties.
Measures == {0, 1, 15}

\* An office map with a prefixed, padded name for one code.
Offices == <<[code |-> Code6613001, name |-> <<"C", "C", "C", "-", "A", " ">>]>>

\* The name field each distribution of the consumer screen is computed with.
ConsumerNameField(field) ==
  CASE field = "region_code" -> "region_name"
    [] field = "division_code" -> "division_name"
    [] field = "ccc_code" -> "ccc_name"
    [] OTHER -> "none"

InitShareNamed ==
  /\ dataset = "consumer"
  /\ groupKey = "ccc_code"
  /\ officeMap = NoOffices
  /\ screenData \in SeqsUpTo(
       {[DefaultConsumer EXCEPT !.ccc_code = c, !.ccc_name = n, !.COUNT = k] :
          c \in {Code6613001, Code6613002}, n \in {Undefined, ValA},
          k \in Measures},
       MaxShareRows)

InitShareValue ==
  /\ dataset = "consumer"
  /\ groupKey = "CONN_STAT"
  /\ officeMap = NoOffices
  /\ screenData \in SeqsUpTo(
       {[DefaultConsumer EXCEPT !.CONN_STAT = v, !.COUNT = k] :
          v \in {ValA, ValB, Undefined}, k \in Measures},
       MaxShareRows)

InitShareOffice ==
  /\ dataset = "collection"
  /\ \/ groupKey = "region_code" /\ officeMap = NoOffices
     \/ groupKey = "ccc_code" /\ officeMap = Offices
  /\ screenData \in SeqsUpTo(
       {[DefaultCollection EXCEPT ![groupKey] = c, !.AMOUNT_PAID = a] :
          c \in {Code6613001, Code6613002, Undefined}, a \in Measures},
       MaxShareRows)

InitShare ==
  /\ phase = "input"
  /\ user = ZoneUser
  /\ row = NoRow
  /\ inScope = FALSE
  /\ allData = <<>>
  /\ filters = EmptyFilters
  /\ result = NoResult
  /\ CacheIdle
  /\ SweepIdle
  /\ ScreenIdle
  /\ summary = <<>>
  /\ total = 0
  /\ aggregates = NoAggregates
  /\ (InitShareNamed \/ InitShareValue \/ InitShareOffice)

\* ConsumersReport aggregate.compute for one distribution.
ComputeConsumerShares ==
  /\ phase = "input"
  /\ dataset = "consumer"
  /\ LET entries == ConsumerTable(screenData, groupKey,
                                  ConsumerNameField(groupKey), officeMap)
         sum == SumField(entries, "count")
     IN  /\ total' = sum
         /\ \E shares \in ShareColumns(entries, "count", sum) :
              summary' = WithShares(entries, shares)
  /\ phase' = "done"
  /\ UNCHANGED <<user, screenData, groupKey, officeMap, aggregates>>
  /\ UNCHANGED scopeVars
  /\ UNCHANGED cacheVars
  /\ UNCHANGED sweepVars
  /\ UNCHANGED fetchVars
  /\ UNCHANGED screenVars

\* CollectionReport hierarchicalAggregates compute for one office level,
\* and the share column CollectionTable renders from it.
ComputeCollectionShares ==
  /\ phase = "input"
  /\ dataset = "collection"
  /\ LET entries == CollectionTable(screenData, groupKey, officeMap)
         sum == SumField(entries, "amount")
     IN  /\ total' = sum
         /\ \E shares \in ShareColumns(entries, "amount", sum) :
              summary' = WithShares(entries, shares)
  /\ phase' = "done"
  /\ UNCHANGED <<user, screenData, groupKey, officeMap, aggregates>>
  /\ UNCHANGED scopeVars
  /\ UNCHANGED cacheVars
  /\ UNCHANGED sweepVars
  /\ UNCHANGED fetchVars
  /\ UNCHANGED screenVars

NextShare == ComputeConsumerShares \/ ComputeCollectionShares

SpecShare == InitShare /\ [][NextShare]_vars

(***************************************************************************)
(* Collection specification: the time rollups of the collection screen     *)
(***************************************************************************)
\* The most collection records on display in the model.
MaxCollectionRows == 2

Text20240315 == <<"2", "0", "2", "4", "0", "3", "1", "5">>
Text20240401 == <<"2", "0", "2", "4", "0", "4", "0", "1">>

\* Payment dates: around the fiscal-year boundary, in weeks 2 and 10 or 11,
\* on New Year's Day, a 30 February, a 13th month, no text, and the text of
\* a missing cell.
PaymentDates ==
  {Text20240315, Text20240401,
   <<"2", "0", "2", "4", "0", "3", "3", "1">>,
   <<"2", "0", "2", "3", "0", "4", "0", "5">>,
   <<"2", "0", "2", "4", "0", "1", "0", "7">>,
   <<"2", "0", "2", "4", "0", "3", "1", "0">>,
   <<"2", "0", "2", "4", "0", "1", "0", "1">>,
   <<"2", "0", "2", "4", "0", "2", "3", "0">>,
   <<"2", "0", "2", "4", "1", "3", "0", "1">>,
   <<>>,
   UndefinedText}

CollectionRows ==
  {[DefaultCollection EXCEPT !.PAYMENT_DT = dt, !.COUNT = k[1],
                             !.AMOUNT_PAID = k[2]] :
     dt \in PaymentDates, k \in {<<1, 15>>, <<2, 1>>}}

\* The clocks of the model in minutes ahead of UTC: UTC, India, Colombia.
TimeZones == {0, 330, -300}

InitCollection ==
  /\ phase = "input"
  /\ user = ZoneUser
  /\ row = NoRow
  /\ inScope = FALSE
  /\ dataset = "collection"
  /\ allData = <<>>
  /\ filters = EmptyFilters
  /\ result = NoResult
  /\ CacheIdle
  /\ SweepIdle
  /\ ScreenIdle
  /\ screenData \in SeqsUpTo(CollectionRows, MaxCollectionRows)
  /\ groupKey = "none"
  /\ summary = <<>>
  /\ officeMap = NoOffices
  /\ total = 0
  /\ aggregates = NoAggregates

\* setAggregates(processCollectionAggregates(collectionRes)) in a browser
\* of some time zone and date parser.
ProcessCollectionAggregates ==
  /\ phase = "input"
  /\ dataset = "collection"
  /\ groupKey = "none"
  /\ \E tz \in TimeZones, lenient \in BOOLEAN :
       aggregates' = processCollectionAggregates(screenData, tz, lenient)
  /\ phase' = "done"
  /\ UNCHANGED <<user, screenData, groupKey, summary, officeMap, total>>
  /\ UNCHANGED scopeVars
  /\ UNCHANGED cacheVars
  /\ UNCHANGED sweepVars
  /\ UNCHANGED fetchVars
  /\ UNCHANGED screenVars

NextCollection == ProcessCollectionAggregates

SpecCollection == InitCollection /\ [][NextCollection]_vars

(***************************************************************************)
(* Cache specification: the fetch functions of googleSheetsService.ts and  *)
(* syncSheetBackground on one data set, its sheet being edited meanwhile   *)
(***************************************************************************)
\* The most rows of a sheet written out in the model.
MaxSheetRows == 1

\* The last reading of the clock in the model.
MaxClock == 1

StorageKeys == CACHE_KEYS \cup {KeyTheme}

\* The data sets performFullBackgroundSync runs syncSheetBackground for.
SyncedDatasets == Datasets \ {"mapping"}

\* The rows parseCSV makes of a sheet: every header is a property and its
\* value a text.  A row has a numeric column that holds a number or a text
\* that is none, and may lack a column altogether.
SheetRowsOf(d) ==
  CASE d = "nsc" ->
         {<<<<NameDate, Text20240315>>, <<NameAPPL_NO, Text7A>>,
            <<NameSCN_STATUS, ValA>>, <<NameDelaySerial, Str2>>>>,
          <<<<NameDate, Text20240315>>, <<NameAPPL_NO, Text7A>>,
            <<NameDelaySerial, <<"x">>>>>>,
          <<<<NameDate, Text20240401>>, <<NameAPPL_NO, Text7A>>,
            <<NameSCN_STATUS, ValA>>, <<NameDelaySerial, Str2>>>>}
    [] d = "consumers" ->
         {<<<<NameDate, Text20240315>>, <<NameCccCode, Code6613001>>,
            <<NameCOUNT, Str2>>>>,
          <<<<NameDate, Text20240315>>, <<NameCccCode, Code6613001>>,
            <<NameCOUNT, <<"x">>>>>>,
          <<<<NameDate, Text20240401>>, <<NameCccCode, Code6613001>>,
            <<NameCOUNT, Str2>>>>}
    [] d = "reports" ->
         {<<<<NameDate, Text20240315>>, <<NameRevenue, Str2>>>>,
          <<<<NameDate, Text20240315>>, <<NameRevenue, <<"x">>>>>>,
          <<<<NameDate, Text20240401>>, <<NameRevenue, Str2>>>>}
    [] d = "dockets" ->
         {<<<<NameDate, Text20240315>>, <<NameDocNo, Text7A>>>>,
          <<<<NameDate, Text20240315>>, <<NameDocNo, Str2>>>>,
          <<<<NameDate, Text20240401>>, <<NameDocNo, Text7A>>>>}
    [] d = "collection" ->
         {<<<<NameDate, Text20240315>>, <<NamePAYMENT_DT, Text20240315>>,
            <<NameCOUNT, Str2>>, <<NameAmountPaid, Str12>>>>,
          <<<<NameDate, Text20240315>>, <<NamePAYMENT_DT, Text20240315>>,
            <<NameCOUNT, Str2>>, <<NameAMOUNT_PAID, <<"x">>>>>>,
          <<<<NameDate, Text20240401>>, <<NamePAYMENT_DT, Text20240401>>,
            <<NameCOUNT, Str2>>, <<NameAmountPaid, Str12>>>>}
    [] d = "users" ->
         {<<<<NameUserId, Text7A>>>>,
          <<<<NameUserId, Text7A>>, <<NameIsActive, <<"Y">>>>>>,
          <<<<NameUserId, Text7A>>, <<NameDate, Text20240315>>,
            <<NameIsActive, <<"N">>>>>>}
    [] d = "mapping" ->
         {<<<<NameCccCode, Code6613001>>>> \o rest :
            rest \in {<<<<NameOfficeName, ShyamLal>>>>, <<<<NameOffice, ValA>>>>, <<>>}}

\* The sizes of the sheets: the rows written out, and for the pending
\* applications also 500 and 501 rows.
Sheets(d) ==
  {Objects(items, 0) : items \in SeqsUpTo(SheetRowsOf(d), MaxSheetRows)}
    \cup (IF d = "nsc"
            THEN {Objects(<<r>>, more) :
                    r \in SheetRowsOf(d),
                    more \in {CompactThreshold - 1, CompactThreshold}}
            ELSE {})

\* What the storage holds under the key in focus when the application
\* starts: nothing, or a text some other writer left.
ForeignTexts ==
  {Absent, Stored("empty", NullData, 0), Stored("malformed", NullData, 0),
   Stored("null", NullData, 0), Stored("nodata", NullData, 0)}

\* The other keys: one more cache entry and a key that is no cache key.
Bystander(d) == IF d = "mapping" THEN KeyNSC ELSE KeyMAPPING

InitCache ==
  /\ phase = "cache"
  /\ user = ZoneUser
  /\ row = NoRow
  /\ inScope = FALSE
  /\ dataset = "none"
  /\ allData = <<>>
  /\ filters = EmptyFilters
  /\ result = NoResult
  /\ ReportIdle
  /\ SweepIdle
  /\ ScreenIdle
  /\ focus \in Datasets
  /\ sheet \in Sheets(focus)
  /\ now = 0
  /\ call = NoCall
  /\ \E text \in ForeignTexts :
       storage = [k \in StorageKeys |->
                    IF k = CacheKey(focus) THEN text
                    ELSE IF k \in {Bystander(focus), KeyTheme}
                      THEN Stored("entry", EmptyMap, 0)
                    ELSE Absent]

\* The outcomes of the requests and writes of a call that can tell: a
\* request that is not made and a write that is not tried have none.
FetchOutcomes ==
  IF CachedTruthy(getCache(storage, CacheKey(focus)))
    THEN {<<"ok", "ok", "ok">>}
    ELSE {<<response, "ok", "ok">> : response \in Responses \ {"ok"}}
           \cup {<<"ok", first, "ok">> : first \in FirstWrites}
           \cup {<<"ok", "quota", "fail">>}

SyncOutcomes ==
  {<<probe, "ok", "ok", "ok">> : probe \in Responses}
    \cup {<<"ok", full, "ok", "ok">> : full \in Responses}
    \cup {<<"ok", "ok", first, "ok">> : first \in FirstWrites}
    \cup {<<"ok", "ok", "quota", "fail">>}

\* One call of the fetch function of the data set in focus.
FetchFromSheet ==
  /\ phase = "cache"
  /\ \E o \in FetchOutcomes :
     \E done \in {fetchFromSheet(focus, storage, sheet, now, o[1], o[2], o[3])} :
           /\ storage' = done.storage
           /\ call' = [NoCall EXCEPT !.op = "fetch",
                                     !.returned = done.returned,
                                     !.threw = done.threw,
                                     !.cached = done.cached,
                                     !.reads = 1,
                                     !.cachedData = done.cachedData,
                                     !.requests = done.requests,
                                     !.writes = done.writes,
                                     !.evicted = done.evicted,
                                     !.response = IF done.requests > 0
                                                    THEN o[1] ELSE "none",
                                     !.first = IF done.writes > 0 THEN o[2]
                                               ELSE "none",
                                     !.retry = IF done.writes > 1 THEN o[3]
                                               ELSE "none",
                                     !.before = storage,
                                     !.at = now]
  /\ UNCHANGED <<phase, user, sheet, now, focus>>
  /\ UNCHANGED scopeVars
  /\ UNCHANGED fetchVars
  /\ UNCHANGED reportVars
  /\ UNCHANGED sweepVars
  /\ UNCHANGED screenVars

\* One run of syncSheetBackground for the data set in focus.
SyncSheetBackground ==
  /\ phase = "cache"
  /\ focus \in SyncedDatasets
  /\ \E o \in SyncOutcomes :
     \E done \in {syncSheetBackground(focus, storage, sheet, now, o[1], o[2],
                                      o[3], o[4])} :
           /\ storage' = done.storage
           /\ call' = [NoCall EXCEPT !.op = "sync",
                                     !.cached = done.cached,
                                     !.reads = done.reads,
                                     !.requests = done.requests,
                                     !.writes = done.writes,
                                     !.evicted = done.evicted,
                                     !.events = done.events,
                                     !.fetched = done.fetched,
                                     !.first = IF done.writes > 0 THEN o[3]
                                               ELSE "none",
                                     !.retry = IF done.writes > 1 THEN o[4]
                                               ELSE "none",
                                     !.before = storage,
                                     !.at = now]
  /\ UNCHANGED <<phase, user, sheet, now, focus>>
  /\ UNCHANGED scopeVars
  /\ UNCHANGED fetchVars
  /\ UNCHANGED reportVars
  /\ UNCHANGED sweepVars
  /\ UNCHANGED screenVars

\* The sheet is edited.
EditSheet ==
  /\ phase = "cache"
  /\ sheet' \in Sheets(focus) \ {sheet}
  /\ call' = [NoCall EXCEPT !.op = "edit"]
  /\ UNCHANGED <<phase, user, storage, now, focus>>
  /\ UNCHANGED scopeVars
  /\ UNCHANGED fetchVars
  /\ UNCHANGED reportVars
  /\ UNCHANGED sweepVars
  /\ UNCHANGED screenVars

\* Time passes.
Tick ==
  /\ phase = "cache"
  /\ now < MaxClock
  /\ now' = now + 1
  /\ call' = [NoCall EXCEPT !.op = "tick"]
  /\ UNCHANGED <<phase, user, storage, sheet, focus>>
  /\ UNCHANGED scopeVars
  /\ UNCHANGED fetchVars
  /\ UNCHANGED reportVars
  /\ UNCHANGED sweepVars
  /\ UNCHANGED screenVars

NextCache == FetchFromSheet \/ SyncSheetBackground \/ EditSheet \/ Tick

SpecCache == InitCache /\ [][NextCache]_vars

(***************************************************************************)
(* Background sync specification: performFullBackgroundSync starts one run *)
(* of syncSheetBackground per data set; the runs wait for their requests   *)
(* and continue in the order the answers arrive.                           *)
(***************************************************************************)

\* The data sets of the runs performFullBackgroundSync starts, in the order
\* of its array.
SweepList == <<"nsc", "consumers", "reports", "dockets", "collection", "users">>

\* The number of runs followed: the first ones of the array.
MaxSweepTasks == 3

Started == {SweepList[i] : i \in 1..MaxSweepTasks}

\* The sheets during a sweep: one dated row each.
SweepSheets(d) ==
  {Objects(<<r>>, 0) :
     r \in {x \in SheetRowsOf(d) :
              getValue(x, NameDate)
                = (IF d = "users" THEN Text20240315 ELSE Text20240401)}}

\* A run of syncSheetBackground that has sent its probe and waits for the
\* answer.
NoTask ==
  [pc |-> "probe", probe |-> "none", full |-> "none", first |-> "none",
   retry |-> "none", requests |-> 1, threw |-> FALSE]

\* The part of syncSheetBackground up to its second request: whether the
\* run goes on to fetch the whole sheet.
ChangeDetected(d, store, raw, probe) ==
  syncSheetBackground(d, store, raw, 0, probe, "notOk", "ok", "ok").requests = 2

\* Variant of Settled that is content with one finished run.
SettledByAny(ts) == \E d \in DOMAIN ts : ts[d].pc = "done"

\* Promise.allSettled: every run has finished.
Settled(ts) == \A d \in DOMAIN ts : ts[d].pc = "done"

\* The answers to the full request and the outcomes of the write that
\* follows an OK answer.
FullOutcomes ==
  {<<full, "ok", "ok">> : full \in Responses}
    \cup {<<"ok", first, "ok">> : first \in FirstWrites}
    \cup {<<"ok", "quota", "fail">>}

\* Before the sweep the storage holds no copy of a sheet, or the current
\* rows of the first one.
InitSweep ==
  /\ phase = "sweep"
  /\ user = ZoneUser
  /\ row = NoRow
  /\ inScope = FALSE
  /\ dataset = "none"
  /\ allData = <<>>
  /\ filters = EmptyFilters
  /\ result = NoResult
  /\ ReportIdle
  /\ ScreenIdle
  /\ sheet = NullData
  /\ now = 0
  /\ focus = "none"
  /\ call = NoCall
  /\ sweep = NoSweep
  /\ tasks = <<>>
  /\ sheets \in [Started -> UNION {SweepSheets(d) : d \in Started}]
  /\ \A d \in Started : sheets[d] \in SweepSheets(d)
  /\ \E cachedSets \in {{}, {SweepList[1]}} :
       storage = [k \in StorageKeys |->
                    IF \E d \in cachedSets : k = CacheKey(d)
                      THEN Stored("entry",
                                  JsonRoundTrip(sheets[CHOOSE d \in cachedSets :
                                                         k = CacheKey(d)]), 0)
                    ELSE IF k \in {KeyMAPPING, KeyTheme}
                      THEN Stored("entry", EmptyMap, 0)
                    ELSE Absent]

\* performFullBackgroundSync is called: every run starts and sends its
\* probe.
PerformFullBackgroundSync ==
  /\ phase = "sweep"
  /\ sweep.pc = "idle"
  /\ sweep' = [NoSweep EXCEPT !.pc = "running", !.before = storage]
  /\ tasks' = [d \in Started |-> NoTask]
  /\ UNCHANGED <<phase, user, sheets>>
  /\ UNCHANGED scopeVars
  /\ UNCHANGED fetchVars
  /\ UNCHANGED reportVars
  /\ UNCHANGED cacheVars
  /\ UNCHANGED screenVars

\* The probe of a run is answered: the run ends, or compares the dates
\* and sends the full request.
ProbeAnswered(d) ==
  /\ phase = "sweep"
  /\ d \in DOMAIN tasks
  /\ tasks[d].pc = "probe"
  /\ \E probe \in Responses :
     \E goesOn \in {ChangeDetected(d, storage, sheets[d], probe)} :
       tasks' = [tasks EXCEPT ![d] =
                   [@ EXCEPT !.probe = probe,
                             !.pc = IF goesOn THEN "full" ELSE "done",
                             !.requests = IF goesOn THEN 2 ELSE 1]]
  /\ UNCHANGED <<phase, user, sweep, sheets>>
  /\ UNCHANGED scopeVars
  /\ UNCHANGED fetchVars
  /\ UNCHANGED reportVars
  /\ UNCHANGED cacheVars
  /\ UNCHANGED screenVars

\* The full request of a run is answered: after an OK answer the run gives
\* the rows to setCache and dispatches mzo-data-updated; the run ends.
FullAnswered(d) ==
  /\ phase = "sweep"
  /\ d \in DOMAIN tasks
  /\ tasks[d].pc = "full"
  /\ \E o \in FullOutcomes :
       IF o[1] = "ok"
         THEN \E written \in {setCache(storage, CacheKey(d), sheets[d], now,
                                        o[2], o[3])} :
                /\ storage' = written.storage
                /\ sweep' = [sweep EXCEPT !.events = Append(@, CacheKey(d))]
                /\ tasks' = [tasks EXCEPT ![d] =
                               [@ EXCEPT !.pc = "done", !.full = "ok",
                                         !.first = o[2],
                                         !.retry = IF written.writes > 1
                                                     THEN o[3] ELSE "none"]]
         ELSE /\ tasks' = [tasks EXCEPT ![d] =
                             [@ EXCEPT !.pc = "done", !.full = o[1]]]
              /\ UNCHANGED <<storage, sweep>>
  /\ UNCHANGED <<phase, user, sheets, sheet, now, focus, call>>
  /\ UNCHANGED scopeVars
  /\ UNCHANGED fetchVars
  /\ UNCHANGED reportVars
  /\ UNCHANGED screenVars

\* Every run has finished: the promise of Promise.allSettled is fulfilled
\* and performFullBackgroundSync returns.
SweepSettled ==
  /\ phase = "sweep"
  /\ sweep.pc = "running"
  /\ Settled(tasks)
  /\ sweep' = [sweep EXCEPT !.pc = "completed"]
  /\ UNCHANGED <<phase, user, tasks, sheets>>
  /\ UNCHANGED scopeVars
  /\ UNCHANGED fetchVars
  /\ UNCHANGED reportVars
  /\ UNCHANGED cacheVars
  /\ UNCHANGED screenVars

NextSweep ==
  \/ PerformFullBackgroundSync
  \/ \E d \in Started : ProbeAnswered(d)
  \/ \E d \in Started : FullAnswered(d)
  \/ SweepSettled

SpecSweep == InitSweep /\ [][NextSweep]_vars

\* Every request is answered or fails in the end, and a continuation that
\* is ready runs.
SpecSweepFair == SpecSweep /\ WF_vars(NextSweep)


(***************************************************************************)
(* Screen specification: the loads of the dashboard and of the report      *)
(* screens, their fetches answered in any order                            *)
(***************************************************************************)
\* The fetches a screen's load joins.
FetchGroup(name) ==
  CASE name = "dashboard" -> {"nsc", "dockets", "collection", "consumers"}
    [] name = "nsc" -> {"nsc"}
    [] name = "dockets" -> {"dockets"}
    [] name = "consumers" -> {"mapping", "consumers"}
    [] name = "collection" -> {"collection", "mapping"}

ScreenNames == {"dashboard", "nsc", "dockets", "consumers", "collection"}

\* The screens whose load starts with setLoading(true).
SetsLoading(name) == name # "collection"

\* The screens whose load ends with setLoading(false) in a finally block.
LoadsInTry(name) == name = "dashboard"

\* The records of a data set's sheet as its provider builds them: two
\* records of two CCCs; when the sheet lacks the column of a searched
\* field, the field is undefined in every record.
ScreenSheet(d, columns) ==
  LET field == CASE d = "nsc" -> "NAME"
                 [] d = "dockets" -> "PARTY_NAME"
                 [] d = "consumers" -> "CATEGORY"
                 [] d = "collection" -> "date"
      first == IF columns = "partial"
                 THEN [DefaultRow(d) EXCEPT ![field] = Undefined]
                 ELSE DefaultRow(d)
  IN  <<first, [first EXCEPT !.ccc_code = Code6613002]>>

\* What the provider of a data set returns: the records, or [] when its
\* request failed.
Provided(d, failed, columns) ==
  IF d \in failed THEN <<>> ELSE ScreenSheet(d, columns)

\* fetchOfficeMapping(): the map, or {} when its request failed.
ProvidedMapping(failed) == IF "mapping" \in failed THEN NoOffices ELSE Offices

\* The fetch function of a data set on what its provider returned.
ScreenFetch(d, u, f, failed, columns) ==
  CASE d = "nsc" -> fetchNSCData(u, f, Provided(d, failed, columns))
    [] d = "dockets" -> fetchDocketData(u, f, Provided(d, failed, columns))
    [] d = "consumers" -> fetchConsumerData(u, f, Provided(d, failed, columns))
    [] d = "collection" -> fetchCollectionData(u, f, Provided(d, failed, columns))
    [] d = "mapping" -> NoResult

\* The filter states a screen's filter page can set.
ScreenFilters(name) ==
  CASE name = "dashboard" -> {EmptyFilters}
    [] name = "consumers" ->
         {EmptyFilters,
          [EmptyFilters EXCEPT !.cccCodes = Array(<<Code6613002>>)],
          [EmptyFilters EXCEPT !.searchQuery = QueryRam]}
    [] name = "collection" ->
         {EmptyFilters, [EmptyFilters EXCEPT !.ccc = Code6613002]}
    [] OTHER ->
         {EmptyFilters,
          [EmptyFilters EXCEPT !.ccc = Code6613002],
          [EmptyFilters EXCEPT !.searchQuery = QueryRam]}

\* The most filter changes of a screen in the model.
MaxFilterChanges == 2

\* No join has been applied yet.
NoJoin == [applied |-> FALSE, filters |-> EmptyFilters, failed |-> {}]

NoData ==
  [d \in {"nsc", "dockets", "collection", "consumers"} |-> <<>>]

\* The component as its useState calls create it, and around it the data
\* sets that have a cache entry and the columns of the sheets.
NewScreen(name, cache, columns) ==
  [name |-> name, mounted |-> FALSE, filters |-> EmptyFilters,
   loading |-> TRUE, data |-> NoData, officeMap |-> NoOffices,
   kpisOf |-> <<>>, joined |-> NoJoin, rejected |-> FALSE, changes |-> 0,
   cache |-> cache, columns |-> columns]

\* The continuation of `await Promise.all([...])` in load: the set-state
\* calls with the results of the group, and setLoading(false). kpisOf holds
\* the records the KPI cards were computed from.
ApplyJoin(scr, u, l) ==
  [scr EXCEPT
     !.data = [d \in DOMAIN NoData |->
                 IF d \in FetchGroup(scr.name)
                   THEN ScreenFetch(d, u, l.filters, l.failed, scr.columns).rows
                   ELSE @[d]],
     !.officeMap = IF "mapping" \in FetchGroup(scr.name)
                     THEN ProvidedMapping(l.failed) ELSE @,
     !.kpisOf = IF scr.name \in {"nsc", "dockets", "consumers"}
                  THEN ScreenFetch(scr.name, u, l.filters, l.failed,
                                   scr.columns).rows
                  ELSE @,
     !.loading = FALSE,
     !.joined = [applied |-> TRUE, filters |-> l.filters, failed |-> l.failed]]

\* A fetch function of the group threw: Promise.all rejects. The dashboard
\* catches and its finally block clears the flag; the load of a report
\* screen ends there, an unhandled rejection.
RejectJoin(scr) ==
  IF LoadsInTry(scr.name)
    THEN [scr EXCEPT !.loading = FALSE]
    ELSE [scr EXCEPT !.rejected = TRUE]

\* Whether a fetch function of the group throws on the answers at hand.
Throws(scr, u, l, answered) ==
  \E d \in answered : ScreenFetch(d, u, l.filters, l.failed, scr.columns).threw

\* One run of load() for filters f: setLoading(true), the fetches of the
\* group started; those answered from the cache resolve at once, and when
\* all of them do the continuation runs before any other event.
StartLoad(scr, u, f, inFlight) ==
  LET group == FetchGroup(scr.name)
      l == [filters |-> f, pending |-> group \ scr.cache, failed |-> {}]
      begun == IF SetsLoading(scr.name)
                 THEN [scr EXCEPT !.loading = TRUE] ELSE scr
  IN  IF Throws(begun, u, l, group \cap scr.cache)
        THEN [screen |-> RejectJoin(begun), loads |-> inFlight]
      ELSE IF l.pending = {}
        THEN [screen |-> ApplyJoin(begun, u, l), loads |-> inFlight]
      ELSE [screen |-> begun, loads |-> Append(inFlight, l)]

\* The sequence without its i-th element.
Without(seq, i) == SubSeq(seq, 1, i - 1) \o SubSeq(seq, i + 1, Len(seq))

InitScreen ==
  /\ phase = "screen"
  /\ user = ZoneUser
  /\ row = NoRow
  /\ inScope = FALSE
  /\ dataset = "none"
  /\ allData = <<>>
  /\ filters = EmptyFilters
  /\ result = NoResult
  /\ ReportIdle
  /\ CacheIdle
  /\ SweepIdle
  /\ \E name \in ScreenNames, columns \in {"complete", "partial"} :
       \E cache \in {{}, FetchGroup(name)} :
         screen = NewScreen(name, cache, columns)
  /\ loads = <<>>

\* The effect of the first render: load().
MountScreen ==
  /\ phase = "screen"
  /\ ~screen.mounted
  /\ \E out \in {StartLoad([screen EXCEPT !.mounted = TRUE], user,
                           screen.filters, loads)} :
       /\ screen' = out.screen
       /\ loads' = out.loads
  /\ UNCHANGED <<phase, user>>
  /\ UNCHANGED scopeVars
  /\ UNCHANGED fetchVars
  /\ UNCHANGED reportVars
  /\ UNCHANGED cacheVars
  /\ UNCHANGED sweepVars

\* The filter page applies another filter state: setFilters(f), and the
\* effect on [user, filters] runs load() again.
SetFilters ==
  /\ phase = "screen"
  /\ screen.mounted
  /\ screen.changes < MaxFilterChanges
  /\ \E f \in ScreenFilters(screen.name) \ {screen.filters} :
       \E out \in {StartLoad([screen EXCEPT !.filters = f,
                                             !.changes = @ + 1],
                             user, f, loads)} :
         /\ screen' = out.screen
         /\ loads' = out.loads
  /\ UNCHANGED <<phase, user>>
  /\ UNCHANGED scopeVars
  /\ UNCHANGED fetchVars
  /\ UNCHANGED reportVars
  /\ UNCHANGED cacheVars
  /\ UNCHANGED sweepVars

\* The request of fetch d of the i-th load in flight is answered, or fails;
\* an answer is cached unless the quota refuses it. The fetch function
\* filters the records; when it throws the join rejects, and when it was
\* the last fetch awaited the continuation of the load runs.
FetchAnswered ==
  /\ phase = "screen"
  /\ \E i \in DOMAIN loads :
       \E d \in loads[i].pending, ok \in BOOLEAN, wrote \in BOOLEAN :
         /\ wrote => ok
         /\ LET l == [loads[i] EXCEPT
                        !.pending = @ \ {d},
                        !.failed = IF ok THEN @ ELSE @ \cup {d}]
                scr == [screen EXCEPT
                          !.cache = IF wrote THEN @ \cup {d} ELSE @]
            IN  IF Throws(scr, user, l, {d})
                  THEN /\ screen' = RejectJoin(scr)
                       /\ loads' = Without(loads, i)
                ELSE IF l.pending = {}
                  THEN /\ screen' = ApplyJoin(scr, user, l)
                       /\ loads' = Without(loads, i)
                ELSE /\ screen' = scr
                     /\ loads' = [loads EXCEPT ![i] = l]
  /\ UNCHANGED <<phase, user>>
  /\ UNCHANGED scopeVars
  /\ UNCHANGED fetchVars
  /\ UNCHANGED reportVars
  /\ UNCHANGED cacheVars
  /\ UNCHANGED sweepVars

NextScreen == MountScreen \/ SetFilters \/ FetchAnswered

SpecScreen == InitScreen /\ [][NextScreen]_vars

\* Every request is answered or fails in the end, and the effect of the
\* first render runs.
SpecScreenFair ==
  SpecScreen /\ WF_vars(MountScreen) /\ WF_vars(FetchAnswered)

(***************************************************************************)
(* Properties of the scope check                                           *)
(***************************************************************************)
\* The restriction has been evaluated for a user whose role is one of the
\* four levels.
ScopeChecked == phase = "done" /\ user.role \in UserRole

\* The same record or user with the code of one level replaced.
WithCode(x, f, v) == [x EXCEPT ![f] = v]

\* C1: whenever the record has no value (absent or empty) in the
\* hierarchy-code field of the user's role level, the scope check returns
\* true, whatever the user's own code is (also when the user has none).
C1_MissingCodePasses ==
  (ScopeChecked /\ ~Truthy(row[RoleField(user.role)])) => inScope

\* C1 witness: a CCC user holding a code, a record with an empty ccc_code
\* while its other codes are foreign to the user, and the check has passed.
C1_Witness ==
  /\ phase = "done"
  /\ user.role = "CCC"
  /\ user.ccc_code = Code6613001
  /\ row.ccc_code = <<>>
  /\ row.division_code = Code6613002
  /\ inScope

\* C3: only the user's own role level is examined: replacing the code of
\* any other level, in the record or in the user, leaves the result as it is.
C3_OnlyOwnLevel ==
  ScopeChecked =>
    \A f \in HierarchyFields \ {RoleField(user.role)} :
      /\ \A v \in RowCodes :
           applyHierarchyRestriction(WithCode(row, f, v), user) = inScope
      /\ \A v \in UserCodes :
           applyHierarchyRestriction(row, WithCode(user, f, v)) = inScope

\* C3 witness: a DIVISION user whose division_code matches the record sees
\* it although the record's region_code differs from the user's.
C3_Witness ==
  /\ phase = "done"
  /\ user.role = "DIVISION"
  /\ user.division_code = Code6613001
  /\ row.division_code = Code6613001
  /\ user.region_code = Code6613001
  /\ row.region_code = Code6613002
  /\ inScope

(***************************************************************************)
(* Properties of the fetch functions                                       *)
(***************************************************************************)
\* The fetch function of a dataset has returned (or thrown).
FetchDone(kind) == phase = "done" /\ dataset = kind

\* Record i of the provider's data is among the records returned.
Kept(i) == \E j \in DOMAIN result.rows : result.rows[j] = allData[i]

\* Record i passes every constraint of the call other than filter field k.
KeptWithout(i, k, none) ==
  RowOutcome(dataset, allData[i], user, [filters EXCEPT ![k] = none]) = "keep"

\* The value a multi-select filter compares: the field of the record, a
\* numeric field coerced to a string.
FieldString(r, field) ==
  IF field \in NumericFields THEN String(r[field]) ELSE r[field]

\* C2: a record with a non-empty code at the user's role level is returned
\* by fetchNSCData with empty filters exactly when that code equals the
\* user's code at that level (so never when the user has no code there);
\* the CCC user 6613001 gets the record of 6613001 and not that of 6613002.
C2_ExactCodeMatch ==
  (FetchDone("nsc") /\ filters = EmptyFilters /\ user.role \in UserRole) =>
    LET f == RoleField(user.role)
    IN  /\ ~result.threw
        /\ \A i \in DOMAIN allData :
             Truthy(allData[i][f]) => (Kept(i) <=> allData[i][f] = user[f])
        /\ (user = CCCUser /\ allData = ScenarioCCC)
             => result.rows = <<ScenarioCCC[1]>>

\* C2 witness: the scenario has run.
C2_Witness ==
  /\ FetchDone("nsc")
  /\ filters = EmptyFilters
  /\ user = CCCUser
  /\ allData = ScenarioCCC
  /\ result.rows = <<ScenarioCCC[1]>>

\* C4 (as claimed): for a CCC user, fetchConsumerData with empty filters
\* does not exclude a consumer record that lacks a ccc_code.
C4_ConsumerMissingCodePasses ==
  (FetchDone("consumers") /\ filters = EmptyFilters /\ user.role = "CCC") =>
    \A i \in DOMAIN allData : ~Truthy(allData[i].ccc_code) => Kept(i)

\* C5: for every multi-select field of fetchNSCData and fetchConsumerData,
\* the result with the field set to an empty array is the result with the
\* field omitted.
C5_EmptyArrayIsNoFilter ==
  (phase = "done" /\ dataset \in {"nsc", "consumers"}) =>
    \A m \in MultiSelect(dataset) :
      (filters[m[1]].given /\ filters[m[1]].items = <<>>) =>
        result = FilterData(dataset, allData, user,
                            [filters EXCEPT ![m[1]] = NoArray])

\* C5 witness: a fetch with delayRange = [] has returned every record.
C5_Witness ==
  /\ FetchDone("nsc")
  /\ filters.delayRange = Array(<<>>)
  /\ Len(allData) = 2
  /\ result.rows = allData

\* C6: with a non-empty selection V for a multi-select field, a record that
\* passes the other constraints is returned exactly when its field value
\* (numeric fields coerced to string) is a member of V; the selection
\* ["0-3 Day", "4-7 Day"] over the five records of the scenario returns 3.
C6_MembershipDecides ==
  (phase = "done" /\ dataset \in {"nsc", "consumers"}) =>
    /\ \A m \in MultiSelect(dataset) :
         (filters[m[1]].given /\ filters[m[1]].items # <<>>) =>
           \A i \in DOMAIN allData :
             Kept(i) <=>
               /\ KeptWithout(i, m[1], NoArray)
               /\ ArrIncludes(filters[m[1]].items, FieldString(allData[i], m[2]))
    /\ (dataset = "nsc" /\ allData = ScenarioDelay
          /\ filters = ScenarioDelayFilters /\ user = ZoneUser)
         => Len(result.rows) = 3

\* C6 witness: the scenario has run and returned three records.
C6_Witness ==
  /\ FetchDone("nsc")
  /\ allData = ScenarioDelay
  /\ filters = ScenarioDelayFilters
  /\ Len(result.rows) = 3

\* C6, second witness state: a numeric field matched through its string.
C6_NumericReached ==
  /\ FetchDone("nsc")
  /\ filters.noOfPoles = Array(<<Str12, Str2>>)
  /\ Len(allData) = 2
  /\ allData[1].NO_OF_POLES = 12
  /\ allData[2].NO_OF_POLES = 0
  /\ result.rows = <<allData[1]>>

\* Some searched field of the record has a value of which the lowercased
\* query is a substring.
SearchMatches(kind, r, query) ==
  \E k \in DOMAIN SearchedFields(kind) :
    LET v == r[SearchedFields(kind)[k]]
    IN  v # Undefined /\ StrIncludes(toLowerCase(v), toLowerCase(query))

\* C7 (as claimed): with a non-empty searchQuery a record that passes the
\* other constraints is returned exactly when the lowercased query is a
\* substring of the lowercased value of one of the searched fields; an empty
\* or absent query restricts nothing.
C7_SearchDecides ==
  (phase = "done" /\ dataset \in {"nsc", "dockets"}) =>
    \A i \in DOMAIN allData :
      Kept(i) <=>
        /\ KeptWithout(i, "searchQuery", Undefined)
        /\ (Truthy(filters.searchQuery)
              => SearchMatches(dataset, allData[i], filters.searchQuery))

\* What the search does decide: when no searched field of any record is
\* undefined, C7's statement holds.
C7_SearchDecidesWhenFieldsSet ==
  (/\ phase = "done"
   /\ dataset \in {"nsc", "dockets"}
   /\ \A i \in DOMAIN allData : \A k \in 1..3 :
        allData[i][SearchedFields(dataset)[k]] # Undefined) =>
    \A i \in DOMAIN allData :
      Kept(i) <=>
        /\ KeptWithout(i, "searchQuery", Undefined)
        /\ (Truthy(filters.searchQuery)
              => SearchMatches(dataset, allData[i], filters.searchQuery))

(***************************************************************************)
(* Properties of the aggregations                                          *)
(***************************************************************************)
\* The records on display whose group value is empty or absent.
EmptyValued ==
  {i \in DOMAIN screenData : groupKey \notin NumericFields /\ ~Truthy(screenData[i][groupKey])}

\* C8: the counts of the entries of getSummaryData sum to the number of
\* records: none is dropped, and the records with an empty group value are
\* counted in the bucket "N/A".
C8_SummaryCountsAll ==
  phase = "done" /\ groupKey \in SummaryKeys =>
    /\ SumField(summary, "count") = Len(screenData)
    /\ EmptyValued # {} =>
         \E k \in DOMAIN summary :
           /\ summary[k].label = NA
           /\ summary[k].count >= Cardinality(EmptyValued)

\* The same statement for the record sets in which no group value is the
\* name of an inherited property.
C8_SummaryCountsOwnLabels ==
  (\A i \in DOMAIN screenData :
     SummaryLabel(screenData[i], groupKey) \notin InheritedProperties)
    => C8_SummaryCountsAll

\* Two records, one of them without a DelayRange, summarised in two buckets.
C8_EmptyValueReached ==
  /\ phase = "done"
  /\ groupKey = "DelayRange"
  /\ Len(screenData) = 2
  /\ screenData[1].DelayRange = Undefined
  /\ screenData[2].DelayRange = Day4to7
  /\ Len(summary) = 2
  /\ \E k \in DOMAIN summary : summary[k].label = NA /\ summary[k].count = 1

\* The distance of the shares of the table on display from 100.0, in
\* tenths of a percent.
ShareGap ==
  LET sum == SumField(summary, "share")
  IN  IF sum >= 1000 THEN sum - 1000 ELSE 1000 - sum

ShareTableDone == phase = "done" /\ dataset \in {"consumer", "collection"}

ValidPaymentDate(dt) ==
  /\ Len(dt) = 8
  /\ IsDigits(dt)
  /\ ParseDigits(SubSeq(dt, 5, 6)) \in 1..12
  /\ ParseDigits(SubSeq(dt, 7, 8)) \in
       1..DaysInMonth(ParseDigits(SubSeq(dt, 1, 4)), ParseDigits(SubSeq(dt, 5, 6)))

\* "FY Y-(Y+1)" for a month of April or later, "FY (Y-1)-Y" before.
FiscalYearOf(dt) ==
  LET Y == ParseDigits(SubSeq(dt, 1, 4))
      month == ParseDigits(SubSeq(dt, 5, 6))
      from == IF month \in 4..12 THEN Y ELSE Y - 1
  IN  <<"F", "Y", " ">> \o String(from) \o <<"-">> \o String(from + 1)

FY2023 == <<"F", "Y", " ", "2", "0", "2", "3", "-", "2", "0", "2", "4">>
FY2024 == <<"F", "Y", " ", "2", "0", "2", "4", "-", "2", "0", "2", "5">>

RollupDone == phase = "done" /\ dataset = "collection" /\ groupKey = "none"

\* The count of the bucket of a key in a rollup, 0 without such a bucket.
BucketCount(rollup, key) ==
  IF \E k \in DOMAIN rollup : rollup[k].key = key
    THEN rollup[CHOOSE k \in DOMAIN rollup : rollup[k].key = key].count
    ELSE 0

\* The records on display with a calendar date of a fiscal year.
RecordsOfFY(key) ==
  {i \in DOMAIN screenData :
     /\ ValidPaymentDate(screenData[i].PAYMENT_DT)
     /\ FiscalYearOf(screenData[i].PAYMENT_DT) = key}

RECURSIVE CountOver(_)
CountOver(indices) ==
  IF indices = {} THEN 0
  ELSE LET i == CHOOSE j \in indices : TRUE
       IN  screenData[i].COUNT + CountOver(indices \ {i})

\* C10: every record with a valid PAYMENT_DT is in the fiscal-year bucket
\* "FY Y-(Y+1)" when its month is 4 or later and in "FY (Y-1)-Y" otherwise;
\* 2024-03-15 is in FY 2023-2024 and 2024-04-01 in FY 2024-2025.
C10_FiscalYearBucket ==
  RollupDone =>
    \A i \in DOMAIN screenData :
      LET dt == screenData[i].PAYMENT_DT
      IN  ValidPaymentDate(dt) =>
            /\ \E k \in DOMAIN aggregates.fyCount :
                 aggregates.fyCount[k].key = FiscalYearOf(dt)
            /\ BucketCount(aggregates.fyCount, FiscalYearOf(dt))
                 >= CountOver(RecordsOfFY(FiscalYearOf(dt)))
            /\ (\A j \in DOMAIN screenData :
                  ValidPaymentDate(screenData[j].PAYMENT_DT))
                 => BucketCount(aggregates.fyCount, FiscalYearOf(dt))
                      = CountOver(RecordsOfFY(FiscalYearOf(dt)))
            /\ dt = Text20240315 => FiscalYearOf(dt) = FY2023
            /\ dt = Text20240401 => FiscalYearOf(dt) = FY2024

\* C10 witness: 2024-03-15 and 2024-04-01 in two fiscal-year buckets.
C10_Witness ==
  /\ RollupDone
  /\ Len(screenData) = 2
  /\ screenData[1].PAYMENT_DT = Text20240401
  /\ screenData[2].PAYMENT_DT = Text20240315
  /\ Len(aggregates.fyCount) = 2
  /\ aggregates.fyCount[1].key = FY2023
  /\ aggregates.fyCount[1].count = screenData[2].COUNT
  /\ aggregates.fyCount[2].key = FY2024
  /\ aggregates.fyCount[2].count = screenData[1].COUNT

Rollups == {"dailyCount", "weeklyCount", "monthlyCount", "fyCount"}

\* The records on display whose PAYMENT_DT is a calendar date.
ValidRecords ==
  {i \in DOMAIN screenData : ValidPaymentDate(screenData[i].PAYMENT_DT)}

RECURSIVE AmountOver(_)
AmountOver(indices) ==
  IF indices = {} THEN 0
  ELSE LET i == CHOOSE j \in indices : TRUE
       IN  screenData[i].AMOUNT_PAID + AmountOver(indices \ {i})

\* C11: a record with an invalid PAYMENT_DT is in none of the four rollups
\* and a record with a valid one is once in each: every rollup totals the
\* COUNT and the AMOUNT_PAID of the records with a valid date.
C11_RollupsTotalValidRecords ==
  RollupDone =>
    \A which \in Rollups :
      /\ SumField(aggregates[which], "count") = CountOver(ValidRecords)
      /\ SumField(aggregates[which], "amount") = AmountOver(ValidRecords)

\* The four rollups have the same total count and the same total amount.
C11_RollupsAgree ==
  RollupDone =>
    \A which \in Rollups :
      /\ SumField(aggregates[which], "count")
           = SumField(aggregates.dailyCount, "count")
      /\ SumField(aggregates[which], "amount")
           = SumField(aggregates.dailyCount, "amount")

\* The totals are those of the valid records when no record has a day past
\* the end of its month.
C11_RollupsTotalWithoutOverflowDays ==
  (\A i \in DOMAIN screenData :
     LET dt == screenData[i].PAYMENT_DT
     IN  DateParse(substring(dt, 0, 4), substring(dt, 4, 6), substring(dt, 6, 8))
           # "either")
    => C11_RollupsTotalValidRecords

(***************************************************************************)
(* Properties of the cache helpers                                         *)
(***************************************************************************)

\* A call of setCache has been made: by a fetch function or by a run of
\* syncSheetBackground for the data set in focus.
WroteCache == call.op \in {"fetch", "sync"} /\ call.writes > 0

\* C12: when the first write of setCache fails with a quota error, every
\* other key with the prefix mzo_cache_ is removed, the entry under the key
\* and the keys that are no cache keys stay, the write is tried exactly once
\* more and the call returns normally also when the retry fails; after any
\* other error nothing is removed and there is no retry.
C12_QuotaEviction ==
  WroteCache =>
    /\ ~call.threw
    /\ call.first = "quota" =>
          /\ call.writes = 2
          /\ \A k \in StorageKeys \ {CacheKey(focus)} :
                IF startsWith(k, CachePrefix) THEN storage[k] = Absent
                ELSE storage[k] = call.before[k]
          /\ call.evicted =
                {k \in CACHE_KEYS \ {CacheKey(focus)} : call.before[k] # Absent}
          /\ call.retry = "fail" =>
                storage[CacheKey(focus)] = call.before[CacheKey(focus)]
          /\ call.retry = "ok" => storage[CacheKey(focus)].kind = "entry"
    /\ call.first = "error" =>
          /\ call.writes = 1
          /\ call.evicted = {}
          /\ storage = call.before
    /\ call.first = "ok" => call.writes = 1 /\ call.evicted = {}

\* A quota error whose retry failed too: another cache entry was removed,
\* the text under the key and a key without the prefix are still there.
C12_Witness ==
  /\ WroteCache
  /\ call.first = "quota"
  /\ call.retry = "fail"
  /\ call.before[Bystander(focus)].kind = "entry"
  /\ storage[Bystander(focus)] = Absent
  /\ storage[KeyTheme].kind = "entry"
  /\ storage[CacheKey(focus)] # Absent

\* A call has read the cache of the data set in focus with getCache.
ReadCache == call.op \in {"fetch", "sync"} /\ call.reads > 0

\* What the storage held under the key when the call began.
TextBefore == call.before[CacheKey(focus)]

\* C13: getCache never throws, and returns null whenever the key is missing
\* or the stored text cannot be deserialized into an entry with a data field.
C13_NullWithoutEntry ==
  ReadCache =>
    /\ ~call.threw
    /\ TextBefore.kind # "entry" => call.cached = NullData

\* The part of C13 that holds: null for a missing key, an empty text, a text
\* that is no JSON and the text `null`; an entry gives its data.
C13_NullWhenMissingOrUnparsable ==
  ReadCache =>
    /\ ~call.threw
    /\ TextBefore.kind \in {"absent", "empty", "malformed", "null"} =>
          call.cached = NullData
    /\ TextBefore.kind = "nodata" => call.cached = UndefinedData
    /\ TextBefore.kind = "entry" => call.cached = TextBefore.data

\* Two records with the same value under every property name of either.
SameFields(a, b) ==
  \A name \in {a[i][1] : i \in DOMAIN a} \cup {b[i][1] : i \in DOMAIN b} :
    Get(a, name) = Get(b, name)

\* Two data sets of the same length with the same records, field by field.
SameRecords(x, y) ==
  /\ x.form = y.form
  /\ Len(x.items) = Len(y.items)
  /\ x.more = y.more
  /\ IF x.form = "map" THEN SameFields(x.items, y.items)
     ELSE \A i \in DOMAIN x.items : SameFields(x.items[i], y.items[i])

\* The last call gave data to setCache and the write succeeded.
WriteSucceeded ==
  /\ WroteCache
  /\ call.first = "ok" \/ call.retry = "ok"

\* What the next call of the fetch function of the data set returns.
FetchAgain == fetchFromSheet(focus, storage, sheet, now, "ok", "ok", "ok")

\* C14: when the write succeeds, getCache gives back a value equal to the
\* data given to setCache, and for pending applications cached in the
\* compact form the next fetchPendingNSCFromSheet returns records that are
\* identical field by field to the records that were cached, absent values
\* included.
C14_RoundTrip ==
  (WriteSucceeded /\ call.op = "fetch") =>
    /\ call.cachedData.form # "compact" =>
          SameRecords(getCache(storage, CacheKey(focus)), call.cachedData)
    /\ SameRecords(FetchAgain.returned, call.returned)

\* The part of C14 that holds: an array of records and the office map are
\* read back field by field as they were written, after a fetch and after a
\* background sync, and the next fetch returns them without a request.
C14_RoundTripOfRecords ==
  (WriteSucceeded /\ getCache(storage, CacheKey(focus)).form # "compact") =>
    /\ call.op = "fetch" =>
          /\ SameRecords(getCache(storage, CacheKey(focus)), call.returned)
          /\ SameRecords(FetchAgain.returned, call.returned)
    /\ call.op = "sync" =>
          SameRecords(getCache(storage, CacheKey(focus)), sheet)
    /\ FetchAgain.requests = 0

\* The compact form was cached from records with an absent value.
C14_CompactReached ==
  /\ WriteSucceeded
  /\ call.cachedData.form = "compact"
  /\ \E i \in DOMAIN call.returned.items :
       Get(call.returned.items[i], NameSCN_STATUS) = Undefined

(***************************************************************************)
(* Properties of syncSheetBackground                                       *)
(***************************************************************************)

\* A run of syncSheetBackground whose probe was answered with rows.
Probed == call.op = "sync" /\ call.reads > 0

\* The date of the first row of the sheet, and of the first record of the
\* cached copy the run found: of the first record of an array of records,
\* of the first row after the headers of the compact form, null without a
\* cached record.
DateOf(r) == Or(getValue(r, NameDate), getValue(r, NameDATE))

SheetDate == DateOf(sheet.items[1])

CachedDate ==
  LET data == call.cached
  IN  IF data.form = "objects" /\ Length(data) > 0 THEN DateOf(data.items[1])
      ELSE IF data.form = "compact" /\ Length(data) > 0
        THEN DateOf(Reconstruct(data).items[1])
      ELSE Null

DatesDiffer == JsString(SheetDate) # JsString(CachedDate)

\* The run left the storage alone and told nobody.
NothingSynced ==
  /\ storage = call.before
  /\ call.events = <<>>
  /\ ~call.fetched

\* The run wrote the rows of the sheet under its key and sent one event
\* that carries the key.
Overwritten ==
  /\ storage[CacheKey(focus)] = Stored("entry", JsonRoundTrip(sheet), call.at)
  /\ call.events = <<CacheKey(focus)>>

\* C15: after a successful probe syncSheetBackground fetches the whole
\* sheet, overwrites the entry of its key and then dispatches one
\* mzo-data-updated event with the key if and only if the date of the
\* probed first row differs from the date of the first cached row and the
\* full fetch succeeds; otherwise the cache is unchanged and no event is
\* dispatched.
C15_SyncIffDatesDiffer ==
  call.op = "sync" =>
    IF Probed /\ DatesDiffer
      THEN /\ call.requests = 2
           /\ IF call.fetched THEN Overwritten ELSE NothingSynced
      ELSE call.requests = 1 /\ NothingSynced

\* The part of C15 that holds: the same, for a cached copy that is not in
\* the compact form and a write that succeeds.
C15_SyncIffDatesDifferForRecords ==
  (call.op = "sync" /\ call.cached.form # "compact"
     /\ call.first \in {"none", "ok"}) =>
    IF Probed /\ DatesDiffer
      THEN /\ call.requests = 2
           /\ IF call.fetched THEN Overwritten ELSE NothingSynced
      ELSE call.requests = 1 /\ NothingSynced

\* Both outcomes of the comparison happen for a cached array of records.
C15_EqualDatesReached ==
  /\ Probed
  /\ call.cached.form = "objects"
  /\ Length(call.cached) > 0
  /\ ~DatesDiffer
  /\ sheet # call.cached

\* C16: when the cache holds the compact form and the first row of the
\* sheet has the date of the first cached row, syncSheetBackground detects
\* no change: it neither fetches the sheet again nor overwrites the cache.
C16_CompactFormUnchanged ==
  (Probed /\ call.cached.form = "compact" /\ ~DatesDiffer) =>
    call.requests = 1 /\ NothingSynced

(***************************************************************************)
(* Properties of the fetch functions                                       *)
(***************************************************************************)

\* The last call was a fetch function that found no entry under its key,
\* and one that found an entry: an array or the office map.
Miss == call.op = "fetch" /\ TextBefore.kind # "entry"
Hit == call.op = "fetch" /\ TextBefore.kind = "entry"

\* A miss whose request was answered OK: the function built its records
\* and gave them to setCache.
FetchSucceeded == Miss /\ call.writes > 0

\* The entry setCache writes for the data of the last call.
EntryWritten == Stored("entry", JsonRoundTrip(call.cachedData), call.at)

\* The records a fetch function returns for a cached value.
RecordsOf(cached) ==
  IF focus = "nsc" /\ cached.form = "compact" THEN Reconstruct(cached)
  ELSE cached

\* A hit returns the cached records, makes no request and leaves the
\* storage alone, whatever the age of the entry and the size of the array.
ReadThrough ==
  Hit =>
    /\ call.returned = RecordsOf(TextBefore.data)
    /\ call.requests = 0
    /\ call.writes = 0
    /\ ~call.threw
    /\ storage = call.before

\* C17: the first successful fetch of a data set creates its cache entry,
\* and from then on every call of the fetch function returns the cached
\* records without a request, however old the entry and also when the
\* array is empty, until a sync overwrites the entry or an eviction
\* removes it.
C17_CacheLifecycle ==
  /\ FetchSucceeded => storage[CacheKey(focus)] = EntryWritten
  /\ ReadThrough

\* C17 amended: the entry is created when the storage write of the first
\* successful fetch succeeds.
C17_CacheLifecycleWhenWritten ==
  /\ (FetchSucceeded /\ WriteSucceeded) =>
       storage[CacheKey(focus)] = EntryWritten
  /\ (FetchSucceeded /\ ~WriteSucceeded) =>
       storage[CacheKey(focus)] = TextBefore
  /\ ReadThrough

\* A hit on an empty array that a fetch cached earlier.
C17_Witness ==
  /\ Hit
  /\ TextBefore.kind = "entry"
  /\ TextBefore.data = Objects(<<>>, 0)
  /\ TextBefore.timestamp < call.at
  /\ sheet.items # <<>>
  /\ call.requests = 0

\* C18: on a cache miss, when the request of a fetch function fails or is
\* answered with a status that is not OK, the function returns an empty
\* result, throws nothing and writes no cache entry.
C18_FailedRequestGivesEmpty ==
  (Miss /\ call.response \in {"notOk", "fail"}) =>
    /\ call.returned = (IF focus = "mapping" THEN EmptyMap ELSE Objects(<<>>, 0))
    /\ ~call.threw
    /\ call.requests = 1
    /\ call.writes = 0
    /\ storage = call.before

\* A request for a sheet with rows that was answered with another status.
C18_Witness ==
  /\ Miss
  /\ call.response = "notOk"
  /\ sheet.items # <<>>
  /\ call.returned.items = <<>>
  /\ storage[CacheKey(focus)] = TextBefore

\* The numeric fields of the records of a data set.
NumericFieldsOf(d) ==
  CASE d = "nsc" -> {NameDelaySerial}
    [] d = "consumers" -> {NameCOUNT}
    [] d = "reports" -> {NameRevenue}
    [] d = "collection" -> {NameCOUNT, NameAMOUNT_PAID}
    [] OTHER -> {}

\* Every numeric field of every record is a number.
NumbersParsed(d, data) ==
  \A i \in DOMAIN data.items : \A name \in NumericFieldsOf(d) :
    IsNumber(Get(data.items[i], name))

\* C19: in every reachable cache state, also after syncSheetBackground has
\* overwritten the entry of a data set, the records its fetch function
\* returns have their numeric fields parsed to numbers, a text that is no
\* number giving 0.
C19_NumericFieldsParsed ==
  call.op = "fetch" => NumbersParsed(focus, call.returned)

\* The part of C19 that holds: the records a fetch function builds from the
\* sheet have numbers in their numeric fields, 0 for a text that is none.
C19_NumericFieldsParsedWhenBuilt ==
  FetchSucceeded =>
    /\ NumbersParsed(focus, call.returned)
    /\ \A i \in DOMAIN call.returned.items :
         \A name \in NumericFieldsOf(focus) \ {NameAMOUNT_PAID} :
           getValue(sheet.items[i], name) \in {<<"x">>, Undefined} =>
             Get(call.returned.items[i], name) = Number(0)

\* A hit on an entry that syncSheetBackground wrote.
C19_RawRowsReached ==
  /\ Hit
  /\ focus \in {"nsc", "consumers", "reports", "collection"}
  /\ call.returned.items # <<>>
  /\ ~NumbersParsed(focus, call.returned)

(***************************************************************************)
(* Properties of performFullBackgroundSync                                 *)
(***************************************************************************)

\* A run that has finished with both requests answered OK and its write
\* accepted.
Succeeded(d) ==
  /\ tasks[d].pc = "done"
  /\ tasks[d].full = "ok"
  /\ tasks[d].first = "ok" \/ tasks[d].retry = "ok"

\* A run that has finished because a request failed or was answered with
\* another status.
Failed(d) ==
  /\ tasks[d].pc = "done"
  /\ tasks[d].probe \in {"notOk", "fail"} \/ tasks[d].full \in {"notOk", "fail"}

\* No run throws, and what a run does depends on its own requests: with
\* nothing cached under its key an OK probe is followed by the full
\* request, an OK answer to that by the event and, the write accepted, by
\* the entry of its key, which only the quota eviction of another run's
\* write removes again.  performFullBackgroundSync returns only after
\* every run has finished, and without throwing.
ChecksIndependent ==
  /\ ~sweep.threw
  /\ sweep.pc = "completed" => \A d \in DOMAIN tasks : tasks[d].pc = "done"
  /\ \A d \in DOMAIN tasks :
       /\ ~tasks[d].threw
       /\ (tasks[d].probe = "ok" /\ sweep.before[CacheKey(d)] = Absent) =>
            tasks[d].requests = 2
       /\ tasks[d].full = "ok" <=>
            \E i \in DOMAIN sweep.events : sweep.events[i] = CacheKey(d)
       /\ Succeeded(d) =>
            \/ storage[CacheKey(d)]
                 = Stored("entry", JsonRoundTrip(sheets[d]), now)
            \/ /\ storage[CacheKey(d)] = Absent
               /\ \E e \in DOMAIN tasks \ {d} : tasks[e].first = "quota"

\* C20: the staleness checks of performFullBackgroundSync are independent:
\* a check that fails (network error, status not OK, exception) keeps no
\* other check from completing and updating its own cache entry, and
\* performFullBackgroundSync always completes without throwing.
C20_ChecksIndependent ==
  /\ []ChecksIndependent
  /\ <>(sweep.pc = "completed")

\* A completed sweep in which one run met a network error, one a status
\* that is not OK, and a third wrote the entry of its key.
C20_Witness ==
  /\ sweep.pc = "completed"
  /\ \E a, b, c \in DOMAIN tasks :
       /\ tasks[a].probe = "fail"
       /\ Failed(b) /\ tasks[b].full = "notOk"
       /\ Succeeded(c)
       /\ sweep.before[CacheKey(c)] = Absent
       /\ storage[CacheKey(c)] = Stored("entry", JsonRoundTrip(sheets[c]), now)

(***************************************************************************)
(* Properties of the event and of the entries during a sweep               *)
(***************************************************************************)

\* C25: whenever syncSheetBackground dispatches mzo-data-updated for a key,
\* the entry under that key holds the data set that was just fetched, also
\* when the write inside setCache met the storage quota.
C25_EventMeansEntryWritten ==
  (call.op = "sync" /\ call.events # <<>>) =>
    /\ call.events = <<CacheKey(focus)>>
    /\ storage[CacheKey(focus)]
         = Stored("entry", JsonRoundTrip(sheet), call.at)

\* The part of C25 that holds: the event carries the key of the run, is
\* sent once, and the entry holds the fetched rows when the write or its
\* retry was accepted.
C25_EventMeansEntryWrittenWhenAccepted ==
  (call.op = "sync" /\ call.events # <<>>) =>
    /\ call.events = <<CacheKey(focus)>>
    /\ call.fetched
    /\ WriteSucceeded =>
         storage[CacheKey(focus)]
           = Stored("entry", JsonRoundTrip(sheet), call.at)

\* The event after a quota error whose retry failed too.
C25_QuotaReached ==
  /\ call.op = "sync"
  /\ call.events # <<>>
  /\ call.first = "quota"
  /\ call.retry = "fail"
  /\ storage[CacheKey(focus)] = TextBefore

\* C26: during a sweep an entry freshly written by one run is never removed
\* by another run, so after a sweep in which every fetch succeeds each
\* data set whose change was detected has its fetched rows in the cache.
C26_FreshEntriesKept ==
  \A d \in DOMAIN tasks :
    Succeeded(d) =>
      storage[CacheKey(d)] = Stored("entry", JsonRoundTrip(sheets[d]), now)

\* The part of C26 that holds: as long as no write of the sweep has met the
\* quota, the entry a run wrote stays.
C26_FreshEntriesKeptWithoutQuota ==
  (\A e \in DOMAIN tasks : tasks[e].first # "quota") =>
    \A d \in DOMAIN tasks :
      Succeeded(d) =>
        storage[CacheKey(d)] = Stored("entry", JsonRoundTrip(sheets[d]), now)

\* A completed sweep, every request answered OK, in which the entry one run
\* wrote was removed by the quota eviction of another run's write.
C26_EvictionReached ==
  /\ sweep.pc = "completed"
  /\ \A d \in DOMAIN tasks : tasks[d].probe = "ok" /\ tasks[d].full \in {"ok", "none"}
  /\ \E d \in DOMAIN tasks : Succeeded(d) /\ storage[CacheKey(d)] = Absent

\* handleLogin admits the user found by id and password when `u.is_active`
\* is truthy.
handleLoginAdmits(u) == JsTruthy(Get(u, NameIsActive))

\* The text in the is_active column marks the account inactive.
MarkedInactive(u) == isActive(getValue(u, NameIsActive)) = False

\* C27: in every reachable cache state, also after a background sync has
\* written the users entry, fetchUsersFromSheet returns users whose
\* is_active is the boolean of the activation rule, so handleLogin never
\* admits a user whose sheet row marks the account inactive.
C27_InactiveNeverAdmitted ==
  (call.op = "fetch" /\ focus = "users") =>
    \A i \in DOMAIN call.returned.items :
      LET u == call.returned.items[i]
      IN  /\ Get(u, NameIsActive) \in {True, False}
          /\ handleLoginAdmits(u) => Get(u, NameIsActive) = True

\* The part of C27 that holds: the users fetchUsersFromSheet builds from
\* the sheet carry the boolean of the activation rule, and a row marked
\* inactive is not admitted.
C27_InactiveNeverAdmittedWhenBuilt ==
  (FetchSucceeded /\ focus = "users") =>
    \A i \in DOMAIN call.returned.items :
      LET u == call.returned.items[i]
      IN  /\ Get(u, NameIsActive)
               = isActive(getValue(sheet.items[i], NameIsActive))
          /\ MarkedInactive(sheet.items[i]) => ~handleLoginAdmits(u)

\* A hit on the rows a background sync wrote: a row marked inactive that
\* handleLogin admits.
C27_RawUsersReached ==
  /\ Hit
  /\ focus = "users"
  /\ \E i \in DOMAIN call.returned.items :
       /\ MarkedInactive(call.returned.items[i])
       /\ handleLoginAdmits(call.returned.items[i])

\* ---------------------------------------------------------------------
\* Properties of the order of the weekly rollup
\* ---------------------------------------------------------------------

\* The year and the week number written in a weekly key YYYY-W<n>.
YearOfKey(key) == SubSeq(key, 1, 4)

WeekOfKey(key) == ParseDigits(SubSeq(key, 7, Len(key)))

WeeklyChronological(weekly) ==
  \A i, j \in DOMAIN weekly :
    (i < j /\ YearOfKey(weekly[i].key) = YearOfKey(weekly[j].key))
      => WeekOfKey(weekly[i].key) < WeekOfKey(weekly[j].key)

SameWidthWeeks(weekly) ==
  \A i, j \in DOMAIN weekly :
    YearOfKey(weekly[i].key) = YearOfKey(weekly[j].key)
      => Len(weekly[i].key) = Len(weekly[j].key)

\* C29: the weekly rollup list is in chronological order: of two entries
\* of the same year, the one with the smaller week number comes first.
C29_WeeklyChronological ==
  phase = "done" => WeeklyChronological(aggregates.weeklyCount)

\* The part that holds: the weeks of a year are in order whenever their
\* numbers have the same number of digits.
C29_WeeklyChronologicalSameWidth ==
  (phase = "done" /\ SameWidthWeeks(aggregates.weeklyCount))
    => WeeklyChronological(aggregates.weeklyCount)

\* Two weeks of one year, one below ten and one from ten on, were rolled up.
C29_MixedWidthReached ==
  /\ phase = "done"
  /\ Len(aggregates.weeklyCount) = 2
  /\ ~SameWidthWeeks(aggregates.weeklyCount)

\* ---------------------------------------------------------------------
\* Properties of the search and of the filters as a whole
\* ---------------------------------------------------------------------

\* C23: a fetch function called with a non-empty searchQuery never
\* throws; a record whose searched field is absent does not stop the call.
C23_SearchNeverThrows ==
  (phase = "done" /\ Truthy(filters.searchQuery)) => ~result.threw

\* The part that holds: the call returns whenever every searched field of
\* every record is set.
C23_SearchReturnsWhenFieldsSet ==
  (/\ phase = "done"
   /\ dataset \in {"nsc", "dockets"}
   /\ \A i \in DOMAIN allData : \A k \in 1..3 :
        allData[i][SearchedFields(dataset)[k]] # Undefined)
    => ~result.threw

\* A search met a record without one of the searched fields and threw.
C23_ThrowReached ==
  /\ phase = "done"
  /\ Truthy(filters.searchQuery)
  /\ result.threw
  /\ \E i \in DOMAIN allData : \E k \in 1..3 :
       allData[i][SearchedFields(dataset)[k]] = Undefined

\* The fetch function of the data set at hand, called with filters f.
FetchedWith(f) ==
  CASE dataset = "nsc" -> fetchNSCData(user, f, allData)
    [] dataset = "consumers" -> fetchConsumerData(user, f, allData)
    [] dataset = "dockets" -> fetchDocketData(user, f, allData)
    [] dataset = "reports" -> fetchFilteredData(user, f, allData)
    [] dataset = "collection" -> fetchCollectionData(user, f, allData)

\* C24: the filters only narrow: every record a fetch function returns is
\* also returned by the same function called with empty filters, a call
\* that does not throw.
C24_FiltersOnlyNarrow ==
  phase = "done" =>
    /\ ~FetchedWith(EmptyFilters).threw
    /\ \A j \in DOMAIN result.rows :
         \E k \in DOMAIN FetchedWith(EmptyFilters).rows :
           FetchedWith(EmptyFilters).rows[k] = result.rows[j]

\* C24 witness: a filter was chosen and the call returned some, and not
\* all, of the records of the user's scope.
C24_Witness ==
  /\ phase = "done"
  /\ filters # EmptyFilters
  /\ Len(result.rows) > 0
  /\ Len(result.rows) < Len(FetchedWith(EmptyFilters).rows)

\* ---------------------------------------------------------------------
\* Properties of the docket cards
\* ---------------------------------------------------------------------

\* The number a card shows.
CardValue(k) ==
  IF Head(summary[k].value) = "-"
    THEN 0 - ParseDigits(Tail(summary[k].value))
    ELSE ParseDigits(summary[k].value)

\* The dockets that match neither group of keywords.
OtherDockets ==
  {i \in DOMAIN screenData :
     ~IsTechnical(screenData[i]) /\ ~IsBilling(screenData[i])}

\* The dockets that match both groups.
BothDockets ==
  {i \in DOMAIN screenData :
     IsTechnical(screenData[i]) /\ IsBilling(screenData[i])}

Partitioned ==
  /\ CardValue(2) >= 0
  /\ CardValue(3) >= 0
  /\ CardValue(4) >= 0
  /\ CardValue(2) + CardValue(3) + CardValue(4) = CardValue(1)
  /\ CardValue(1) = Len(screenData)
  /\ CardValue(4) = Cardinality(OtherDockets)

\* C30: calculateDocketKPIs counts each docket in exactly one of
\* Technical, Billing and Others: the three values are non-negative, sum
\* to Total Dockets, and Others is the number of dockets of neither group.
C30_DocketsPartitioned == phase = "done" => Partitioned

\* The part that holds: the cards partition the dockets when no docket
\* matches both groups of keywords.
C30_DocketsPartitionedWhenDisjoint ==
  (phase = "done" /\ BothDockets = {}) => Partitioned

\* A docket of both groups was counted twice and Others went below zero.
C30_NegativeOthersReached ==
  /\ phase = "done"
  /\ BothDockets # {}
  /\ CardValue(4) < 0

\* ---------------------------------------------------------------------
\* Properties of the loads of the screens
\* ---------------------------------------------------------------------

\* C21: a screen that joins several fetches applies the results of a
\* group only when none of its fetches failed.
C21_JoinAllOrNothing ==
  (/\ phase = "screen"
   /\ screen.name \in {"dashboard", "consumers", "collection"}
   /\ screen.joined.applied)
    => screen.joined.failed = {}

\* The dashboard shows the applications it fetched next to an empty list
\* of dockets whose fetch failed.
C21_PartialReached ==
  /\ phase = "screen"
  /\ screen.name = "dashboard"
  /\ screen.joined.applied
  /\ screen.joined.failed = {"dockets"}
  /\ screen.data["nsc"] # <<>>
  /\ screen.data["dockets"] = <<>>
  /\ ~screen.loading

\* C22: once every load in flight has completed, the records and the KPIs
\* on display are those of the load started for the current filters.
C22_StaleIgnored ==
  (/\ phase = "screen"
   /\ screen.name \in {"nsc", "dockets", "consumers"}
   /\ screen.mounted
   /\ loads = <<>>
   /\ ~screen.rejected)
    => /\ screen.joined.applied
       /\ screen.joined.filters = screen.filters

\* The part that holds: when every data set of the group is cached and no
\* load is in flight, a load completes before the next event, and the
\* screen shows its result unless it threw.
C22_CurrentWhenCached ==
  [][(/\ phase = "screen"
      /\ screen.name \in {"nsc", "dockets", "consumers"}
      /\ FetchGroup(screen.name) \subseteq screen.cache
      /\ loads = <<>>)
       => /\ loads' = <<>>
          /\ \/ screen'.rejected
             \/ /\ screen'.joined.applied
                /\ screen'.joined.filters = screen'.filters]_vars

\* Every load has completed, none threw and none of their requests
\* failed, and the records on display are those of an earlier filter state.
C22_StaleReached ==
  /\ phase = "screen"
  /\ screen.name = "nsc"
  /\ loads = <<>>
  /\ ~screen.rejected
  /\ screen.joined.applied
  /\ screen.joined.failed = {}
  /\ screen.joined.filters # screen.filters
  /\ screen.data["nsc"]
       # fetchNSCData(user, screen.filters,
                      ScreenSheet("nsc", screen.columns)).rows

\* C28: every load of a report screen sets the loading flag back to
\* false in the end.
C28_LoadingEnds ==
  [](phase = "screen" /\ screen.name \in {"nsc", "dockets", "consumers"}
       => <>(~screen.loading))

\* The part that holds: the flag is cleared in the end as long as no fetch
\* function throws.
C28_LoadingEndsUnlessThrown ==
  [](phase = "screen" /\ screen.name \in {"nsc", "dockets", "consumers"}
       => <>(~screen.loading \/ screen.rejected))

\* A load threw, no load is in flight and the flag is still set.
C28_StuckReached ==
  /\ phase = "screen"
  /\ screen.name \in {"nsc", "dockets", "consumers"}
  /\ screen.rejected
  /\ loads = <<>>
  /\ screen.changes = MaxFilterChanges
  /\ screen.loading

====
